---- MODULE Spec2Model ----
(***************************************************************************)
(* A model of react-three-fiber's pointer/raycast layer (the Canvas        *)
(* component's event handlers and hover bookkeeping) and of its frame      *)
(* subscriber list.                                                        *)
(*                                                                         *)
(* The pointer layer is src/unnamed/part_002, lines 193-305.  A raycast    *)
(* (THREE.Raycaster.intersectObjects) returns its hits sorted by ascending *)
(* distance: a hit list is a sequence whose index is the distance rank,    *)
(* hit 1 being the nearest.  One object may be hit more than once.         *)
(***************************************************************************)
EXTENDS Integers, Sequences, FiniteSets, TLC

\* Longest hit list a raycast returns in the model.
MaxHits == 2

\* Most subscriptions held at a time in the model.
MaxSubs == 3

\* Most calls of the renderer factory followed in the model.
MaxMounts == 2

\* Most roots created, and most updates waiting for their commit, in the model.
MaxRoots == 2

MaxQueue == 2

\* The most property updates one diff carries for a node.
MaxDiff == 2

\* The most frames one call of advanceFrames is asked for.
MaxFrames == 2

\* The most URLs one call of useLoader is given.
MaxUrls == 2

\* The most children the internal scene is given.
MaxChildren == 3

\* The widths and heights a measurement reports.
Widths == {0, 400, 800}

Heights == {0, 600}

\* The useFrame hooks of the mounted components (each has its own ref).
FrameHooks == {"u1", "u2"}

\* The frame callbacks (useFrame's refs) that can be subscribed.
Callbacks == {"f", "g", "h"}

\* The render priorities a callback is subscribed with.
Priorities == {-2, -1, 0, 1, 2}

\* Objects of the scene a ray can intersect.
SceneObjects == {"A", "B", "C"}

\* The event names bound through handlePointer(name).
PointerNames == {"click", "wheel", "pointerDown", "pointerUp"}

\* The handler tables the scene is mounted with.  object.__handlers is <<>>
\* when the object has none (undefined) and <<names>> when it has a table.
HandlerTables ==
  { [A |-> <<{"pointerOver", "pointerOut", "pointerMove", "click", "wheel", "pointerDown", "pointerUp"}>>,
     B |-> <<{"pointerOver", "pointerOut", "click", "pointerDown"}>>,
     C |-> <<{"pointerOut", "pointerMove", "wheel", "pointerUp"}>>],
    [A |-> <<{"pointerOver", "pointerMove", "click", "pointerUp"}>>,
     B |-> <<{"pointerOver", "pointerOut", "pointerMove", "wheel", "pointerDown"}>>,
     C |-> <<>>] }

VARIABLES
  ready,      \* state.current.ready
  handlers,   \* object.__handlers of every scene object
  hovered,    \* hovered.current: hover entries [object, stopped] in insertion order
  captured,   \* state.current.captured: <<>> is undefined, <<hits>> a recorded hit list
  ev,         \* the DOM event handled last: its type
  cast,       \* the result of the call of intersect() made for that event: <<>> if
              \* intersect was not called, <<hits>> if it was
  used,       \* the hit list handleIntersects returned for that event
  fired,      \* the handlers invoked while handling it, in order: [object, handler, hit]
  stopHit,    \* the index of the hit at which dispatch stopped, 0 if it did not
  before,     \* hovered.current as it was when that event arrived
  subscribers,\* state.current.subscribers, each entry with the priority argument
              \* its subscribe call was given
  trace,      \* what the last tick invoked, in order; <<>> between ticks
  frameloop,  \* the frameloop mode: "always" (continuous) or "demand" (on-demand)
  loopState,  \* the scheduler's state: "Idle", "PendingRedraw" or "Running"
  inflight,   \* the subscriber list the tick in flight took when it started
  pos,        \* the index in inflight of the subscriber the tick invokes next
  ran,        \* the subscribers the tick in flight has invoked so far, in order
  refresh,    \* what the last display refresh did: "none", "ran" or "skipped"
  invalidated,\* invalidate() was called since the last tick that ran
  mounted,    \* the callbacks of the useFrame hooks whose effect has run and
              \* has not been cleaned up
  goneBefore, \* the callbacks unsubscribed, and not subscribed again, before the
              \* tick in flight started
  size,       \* ResizeContainer: the size useMeasure reported last
  readyFlag,  \* ResizeContainer: readyFlag.current
  content,    \* ResizeContainer: whether <Content> is mounted
  glCalls,    \* how often the renderer factory has been called
  effectRuns, \* how often Content's mount effect (effects) has run
  unmounts,   \* how often a mounted <Content> has been unmounted
  seenNonZero,\* some measurement has reported both width and height non-zero
  bounds,     \* Canvas: the size its useMeasure reported last
  created,    \* Canvas: what the onCreated property does, "unset" until read
  isReady,    \* Canvas: the state of <IsReady>: "unmounted", "pending" (waiting
              \* for onCreated's promise), "threw" or "active"
  hookCall,   \* the hook called last: [hook, inside, result], inside telling
              \* whether a Canvas' provider was above the caller
  mockRoots,  \* the registry: the entries [id, fiber, store] of the Map, id the canvas
  made,       \* the number of roots created so far; root n has fiber n
  torn,       \* the canvases whose root an unmount has torn down
  queue,      \* the updates handed to updateContainer and not yet committed
  call,       \* the call of render or unmount, or the commit, made last
  object,     \* the native object of a node: its attributes
  applied,    \* the diff applied to it last and the object before, or the tick
  frame,      \* the object as the last frame tick found it
  internalSubs, \* the store's state.internal.subscribers: the callbacks, in order
  rootState,  \* the root of the store: "created", "active" (its effects have run) or "disposed"
  adv,        \* the call of advanceFrames in progress: [list, frames, j, i], or [frames |-> 0]
  calls,      \* the subscriber invocations of the last advanceFrames: [fn, frame, root]
  ferr,       \* the error the last advanceFrames threw, or "none"
  input,      \* useLoader's input: [kind, urls], kind "string" or "list", "none" before the call
  loads,      \* the load of each URL of the input: "pending", "loaded" or "failed"
  started,    \* how often loader.load has been called for each URL of the input
  settled,    \* the positions of the URLs whose load has ended, in the order they ended
  promise,    \* the promise loadingFn returned: [state, value]
  hookResult, \* what useLoader did in the component's last render: [kind, value]
  glSize,     \* the output size of the renderer, as gl.setSize left it
  aspect,     \* state.current.aspect
  camAspect,  \* the aspect of the active camera
  camEffect,  \* the last run of the camera effect: [ready, invalidated]
  sceneChildren, \* state.current.scene.children: the objects, in order
  manual,     \* state.current.manual
  manualCall, \* setManual, if it was called last: [flag, before], before the children it found
  defaultSubs, \* the array defaultRef.subscribers: entries [canvas, fn], canvas the one subscribed through
  ownSubs,    \* for each Canvas, the array its last unsubscribe assigned to state.current.subscribers
  sharesDefault, \* for each Canvas, whether state.current.subscribers still is defaultRef's array
  testRoot,   \* the renderer's registry entry: "none" before create, "mounted", "unmounted"
  rootChild,  \* the fibers from fiber.current.child down the first children: their types
  history,    \* the elements given to create and update so far, in order
  tcall,      \* the call on the renderer made last: [op, result]
  frameHooks, \* for each useFrame hook: [mounted, callback, priority], callback its ref.current, priority the one it subscribed with
  ticked      \* the tick run last: [canvas, calls], calls the [ref, callback] invoked, in order

pvars == <<ready, handlers, hovered, captured, ev, cast, used, fired, stopHit, before>>

fvars == <<subscribers, trace>>

\* The render loop's own variables (it shares subscribers with fvars).
lvars == <<frameloop, loopState, inflight, pos, ran, refresh, invalidated, mounted,
          goneBefore>>

\* ResizeContainer's variables.
mvars == <<size, readyFlag, content, glCalls, effectRuns, unmounts, seenNonZero>>

\* The variables of Canvas' mount (it shares ready with pvars).
cvars == <<bounds, created, isReady>>

\* The pointer layer's variables but state.current.ready.
pvarsButReady == <<handlers, hovered, captured, ev, cast, used, fired, stopHit, before>>

\* What the pointer layer, the subscriber list, the render loop, the resize
\* container and the mount of Canvas leave alone.
\* The variables of the later sections: the hooks.
xvars == <<hookCall>>

\* The registry of roots and their stores.
rvars == <<mockRoots, made, torn, queue, call>>

\* The property applier's variables.
avars == <<object, applied, frame>>

\* The variables of advanceFrames and of the root it is called on.
gvars == <<internalSubs, rootState, adv, calls, ferr>>

\* The variables of useLoader.
uvars == <<input, loads, started, settled, promise, hookResult>>

\* What Canvas' camera effect writes.
kvars == <<glSize, aspect, camAspect, camEffect>>

\* The internal scene of a Canvas and its manual flag.
svars == <<sceneChildren, manual, manualCall>>

\* The subscriber arrays of the Canvas instances.
nvars == <<defaultSubs, ownSubs, sharesDefault>>

\* The test renderer made by create: its root's fibers and the calls on it.
tvars == <<testRoot, rootChild, history, tcall>>

\* The useFrame hooks of the components and the tick run last.
wvars == <<frameHooks, ticked>>

notPointer == <<fvars, lvars, mvars, cvars, xvars, rvars, avars, gvars, uvars, kvars, svars, nvars, tvars, wvars>>

notScheduler == <<pvars, lvars, mvars, cvars, xvars, rvars, avars, gvars, uvars, kvars, svars, nvars, tvars, wvars>>

notLoop == <<pvars, trace, mvars, cvars, xvars, rvars, avars, gvars, uvars, kvars, svars, nvars, tvars, wvars>>

notResize == <<pvars, fvars, lvars, cvars, xvars, rvars, avars, gvars, uvars, kvars, svars, nvars, tvars, wvars>>

notMount == <<pvarsButReady, fvars, lvars, mvars, xvars, rvars, avars, gvars, uvars, svars, nvars, tvars, wvars>>

notHooks == <<pvars, trace, lvars, mvars, cvars, rvars, avars, gvars, uvars, kvars, svars, nvars, tvars, wvars>>

notRoots == <<pvars, fvars, lvars, mvars, cvars, xvars, avars, gvars, uvars, kvars, svars, nvars, tvars, wvars>>

notProps == <<pvars, fvars, lvars, mvars, cvars, xvars, rvars, gvars, uvars, kvars, svars, nvars, tvars, wvars>>

notFrames == <<pvars, fvars, lvars, mvars, cvars, xvars, rvars, avars, uvars, kvars, svars, nvars, tvars, wvars>>

notLoader == <<pvars, fvars, lvars, mvars, cvars, xvars, rvars, avars, gvars, kvars, svars, nvars, tvars, wvars>>

notManual == <<pvars, fvars, lvars, mvars, cvars, xvars, rvars, avars, gvars, uvars, kvars, nvars, tvars, wvars>>

notCanvases == <<pvars, fvars, lvars, mvars, cvars, xvars, rvars, avars, gvars, uvars, kvars, svars, tvars, wvars>>

notRenderer == <<pvars, fvars, lvars, mvars, cvars, xvars, rvars, avars, gvars, uvars, kvars, svars, nvars, wvars>>

notUseFrame == <<pvars, fvars, lvars, mvars, cvars, xvars, rvars, avars, gvars, uvars, kvars, svars, tvars>>

vars == <<pvars, fvars, lvars, mvars, cvars, xvars, rvars, avars, gvars, uvars, kvars, svars, nvars, tvars, wvars>>

\* A JavaScript number, as far as the aspect needs it: a ratio, Infinity or
\* NaN.
Zero == [kind |-> "finite", num |-> 0, den |-> 1]

\* width / height in JavaScript.
Div(w, h) ==
  IF h # 0 THEN (IF w = 0 THEN Zero ELSE [kind |-> "finite", num |-> w, den |-> h])
  ELSE IF w = 0 THEN [kind |-> "NaN", num |-> 0, den |-> 0]
  ELSE [kind |-> "Infinity", num |-> 0, den |-> 0]

\* x || 0: NaN and 0 are falsy.
OrZero(x) == IF x.kind = "NaN" THEN Zero ELSE x

\* The Canvas instances mounted side by side.
Canvases == {"A", "B"}

Range(s) == {s[i] : i \in 1..Len(s)}

\* All raw raycast results: sequences of scene objects, nearest first.
RawHits == UNION {[1..n -> SceneObjects] : n \in 0..MaxHits}

\* The handler names of an object that has a handler table.
Has(o) == handlers[o][1]

\* intersect(): the raycast filtered to objects that carry __handlers.
intersect(raw) == SelectSeq(raw, LAMBDA o : handlers[o] # <<>>)

HasEntry(hov, o) == \E k \in 1..Len(hov) : hov[k].object = o

EntryStopped(hov, o) == \E k \in 1..Len(hov) : hov[k].object = o /\ hov[k].stopped

\* One handler invocation: the object, the handler name, the index of the hit
\* it was dispatched for (0 for a pointerOut, which is given the stored hover
\* data) and whether the handler called stopPropagation.
Call(o, name, i, stop) == [object |-> o, handler |-> name, hit |-> i, stop |-> stop]

\* OutCalls that calls every pointerOut handler twice.
RECURSIVE OutCallsTwice(_, _, _)
OutCallsTwice(hov, k, gone) ==
  IF k > Len(hov) THEN <<>>
  ELSE (IF hov[k].object \in gone /\ "pointerOut" \in Has(hov[k].object)
        THEN <<Call(hov[k].object, "pointerOut", 0, FALSE),
               Call(hov[k].object, "pointerOut", 0, FALSE)>> ELSE <<>>)
       \o OutCallsTwice(hov, k + 1, gone)

\* The pointerOut calls made for the entries of hov whose object is in gone,
\* in Object.values order; an entry without a pointerOut handler gets no call.
RECURSIVE OutCalls(_, _, _)
OutCalls(hov, k, gone) ==
  IF k > Len(hov) THEN <<>>
  ELSE (IF hov[k].object \in gone /\ "pointerOut" \in Has(hov[k].object)
        THEN <<Call(hov[k].object, "pointerOut", 0, FALSE)>> ELSE <<>>)
       \o OutCalls(hov, k + 1, gone)

\* HitsFor with the event type test left out: click and wheel are served from
\* the captured hits too.
HitsForAnyType(cap, type, raw) ==
  IF cap # <<>>
  THEN [hits |-> cap[1], cast |-> <<>>]
  ELSE [hits |-> intersect(raw), cast |-> <<intersect(raw)>>]

\* The hit list handleIntersects works on: the captured one for capture-aware
\* event types while a capture is active, a fresh raycast otherwise.
HitsFor(cap, type, raw) ==
  IF cap # <<>> /\ type # "click" /\ type # "wheel"
  THEN [hits |-> cap[1], cast |-> <<>>]
  ELSE [hits |-> intersect(raw), cast |-> <<intersect(raw)>>]

\* handlePointer's callback for one hit.
PointerFn(st, o, i, name, wantStop) ==
  IF name \in Has(o)
  THEN [st EXCEPT !.log = Append(@, Call(o, name, i, wantStop)),
                  !.stopHit = IF wantStop THEN i ELSE 0]
  ELSE st

\* BookHover that loses the stop request of a newly hovered object.
BookHoverIgnoresStop(st, o, i, wantStop) ==
  [hov     |-> Append(st.hov, [object |-> o, stopped |-> wantStop]),
   log     |-> Append(st.log, Call(o, "pointerOver", i, wantStop)),
   stopHit |-> 0]

\* BookHover that books the entry without calling the pointerOver handler.
BookHoverSilent(st, o, i, wantStop) ==
  [hov     |-> Append(st.hov, [object |-> o, stopped |-> wantStop]),
   log     |-> st.log,
   stopHit |-> st.stopHit]

\* "If the object wasn't previously hovered, book it and call its handler".
\* The entry keeps the hit's data, and with it the hit's stopped flag.
BookHover(st, o, i, wantStop) ==
  [hov     |-> Append(st.hov, [object |-> o, stopped |-> wantStop]),
   log     |-> Append(st.log, Call(o, "pointerOver", i, wantStop)),
   stopHit |-> IF wantStop THEN i ELSE 0]

\* StopOthers that stops propagation and leaves the other entries alone.
StopOthersKeepsEntries(st, o, i) ==
  [hov |-> st.hov, log |-> st.log, stopHit |-> i]

\* "If the object was previously hovered and stopped, we shouldn't allow other
\* items to proceed": stop propagation, give every other hover entry pointerOut
\* and delete it.
StopOthers(st, o, i) ==
  [hov     |-> SelectSeq(st.hov, LAMBDA e : e.object = o),
   log     |-> st.log \o OutCalls(st.hov, 1, SceneObjects \ {o}),
   stopHit |-> i]

\* handlePointerMove's callback for one hit.
MoveFn(st, o, i, wantStop) ==
  LET moved == "pointerMove" \in Has(o)
      st1   == IF moved
               THEN [st EXCEPT !.log = Append(@, Call(o, "pointerMove", i, wantStop)),
                               !.stopHit = IF wantStop THEN i ELSE 0]
               ELSE st
  IN  IF "pointerOver" \in Has(o)
      THEN IF ~HasEntry(st1.hov, o) THEN BookHover(st1, o, i, wantStop)
           ELSE IF EntryStopped(st1.hov, o) THEN StopOthers(st1, o, i)
           ELSE st1
      ELSE st1

\* The callback handleIntersects is given, by event type; pointer-cancel
\* passes () => null.
HitFn(st, o, i, type, wantStop) ==
  IF type = "pointerMove" THEN MoveFn(st, o, i, wantStop)
  ELSE IF type \in PointerNames THEN PointerFn(st, o, i, type, wantStop)
  ELSE st

\* handleIntersects without the break after a stopped hit.
RECURSIVE handleIntersectsNoBreak(_, _, _, _, _)
handleIntersectsNoBreak(hits, i, type, stopAt, st) ==
  IF i > Len(hits) THEN st
  ELSE handleIntersectsNoBreak(hits, i + 1, type, stopAt,
                               HitFn(st, hits[i], i, type, i = stopAt))

\* handleIntersects' loop from hit i on: call the callback on each hit, break
\* once the hit's stopped flag is set.  stopAt is the hit whose user handlers
\* call stopPropagation when they are invoked (0: no handler does).
RECURSIVE handleIntersects(_, _, _, _, _)
handleIntersects(hits, i, type, stopAt, st) ==
  IF i > Len(hits) THEN st
  ELSE LET st2 == HitFn(st, hits[i], i, type, i = stopAt)
       IN  IF st2.stopHit # 0 THEN st2
           ELSE handleIntersects(hits, i + 1, type, stopAt, st2)

\* handlePointerCancel that deletes an entry only inside the pointerOut test.
handlePointerCancelNeedsOut(st, hits) ==
  LET gone == {o \in SceneObjects : Len(hits) = 0 \/ o \notin Range(hits)}
  IN  [st EXCEPT !.hov = SelectSeq(st.hov, LAMBDA e :
                            e.object \notin gone \/ "pointerOut" \notin Has(e.object)),
                 !.log = @ \o OutCalls(st.hov, 1, gone)]

\* handlePointerCancel once the hits are known: every hover entry whose object
\* is not among the hits gets pointerOut and is deleted.
handlePointerCancel(st, hits) ==
  LET gone == {o \in SceneObjects : Len(hits) = 0 \/ o \notin Range(hits)}
  IN  [st EXCEPT !.hov = SelectSeq(st.hov, LAMBDA e : e.object \notin gone),
                 !.log = @ \o OutCalls(st.hov, 1, gone)]

\* LeaveHits that falls back to the captured hits, as handlePointerCancel(event)
\* without its second argument does.
LeaveHitsFromCapture == IF captured # <<>> THEN captured[1] ELSE <<>>

\* The hits onPointerLeave hands to handlePointerCancel: the empty list.
LeaveHits == <<>>

Start == [hov |-> hovered, log |-> <<>>, stopHit |-> 0]

Init ==
  /\ ready = FALSE
  /\ handlers \in HandlerTables
  /\ hovered = <<>>
  /\ captured = <<>>
  /\ ev = "none"
  /\ cast = <<>>
  /\ used = <<>>
  /\ fired = <<>>
  /\ stopHit = 0
  /\ before = <<>>
  /\ subscribers = <<>>
  /\ trace = <<>>
  /\ frameloop = "always"
  /\ loopState = "PendingRedraw"
  /\ inflight = <<>>
  /\ pos = 0
  /\ ran = <<>>
  /\ refresh = "none"
  /\ invalidated = TRUE
  /\ mounted = {}
  /\ goneBefore = {}
  /\ size = [width |-> 0, height |-> 0]
  /\ readyFlag = FALSE
  /\ content = FALSE
  /\ glCalls = 0
  /\ effectRuns = 0
  /\ unmounts = 0
  /\ seenNonZero = FALSE
  /\ bounds = [width |-> 0, height |-> 0]
  /\ created = "unset"
  /\ isReady = "unmounted"
  /\ hookCall = [hook |-> "none", inside |-> FALSE, result |-> "none"]
  /\ mockRoots = {}
  /\ made = 0
  /\ torn = {}
  /\ queue = <<>>
  /\ call = [op |-> "none"]
  /\ object = [position |-> [x |-> 0, y |-> 0], renderOrder |-> 0]
  /\ applied = [op |-> "none"]
  /\ frame = [position |-> [x |-> 0, y |-> 0], renderOrder |-> 0]
  /\ internalSubs = <<>>
  /\ rootState = "created"
  /\ adv = [frames |-> 0]
  /\ calls = <<>>
  /\ ferr = "none"
  /\ input = [kind |-> "none", urls |-> <<>>]
  /\ loads = <<>>
  /\ started = <<>>
  /\ settled = <<>>
  /\ promise = [state |-> "none", value |-> <<>>]
  /\ hookResult = [kind |-> "none", value |-> <<>>]
  /\ glSize = [width |-> 300, height |-> 150]
  /\ aspect = Zero
  /\ camAspect = Zero
  /\ camEffect = [ready |-> FALSE, invalidated |-> FALSE]
  /\ sceneChildren = <<>>
  /\ manual = FALSE
  /\ manualCall = [flag |-> "none", before |-> <<>>]
  /\ defaultSubs = <<>>
  /\ ownSubs = [c \in Canvases |-> <<>>]
  /\ sharesDefault = [c \in Canvases |-> TRUE]
  /\ testRoot = "none"
  /\ rootChild = <<>>
  /\ history = <<>>
  /\ tcall = [op |-> "none"]
  /\ frameHooks = [u \in FrameHooks |-> [mounted |-> FALSE, callback |-> "none", priority |-> 0]]
  /\ ticked = [canvas |-> "none", calls |-> <<>>]

\* IsReady's activate: setReady(true), written into state.current.ready.
Activate ==
  /\ ev = "none"
  /\ ~ready
  /\ ready' = TRUE
  /\ ev' = "activate" /\ cast' = <<>> /\ used' = <<>> /\ fired' = <<>> /\ stopHit' = 0
  /\ before' = hovered
  /\ UNCHANGED <<handlers, hovered, captured>>
  /\ UNCHANGED notPointer

\* onClick, onWheel, onPointerDown, onPointerUp.
Pointer(name, raw, stopAt) ==
  /\ ev = "none"
  /\ ev' = name
  /\ before' = hovered
  /\ IF ~ready
     THEN cast' = <<>> /\ used' = <<>> /\ fired' = <<>> /\ stopHit' = 0
     ELSE LET h  == HitsFor(captured, name, raw)
              st == handleIntersects(h.hits, 1, name, stopAt, Start)
          IN  cast' = h.cast /\ used' = h.hits /\ fired' = st.log /\ stopHit' = st.stopHit
  /\ UNCHANGED <<ready, handlers, hovered, captured>>
  /\ UNCHANGED notPointer

\* onPointerMove.
PointerMove(raw, stopAt) ==
  /\ ev = "none"
  /\ ev' = "pointerMove"
  /\ before' = hovered
  /\ IF ~ready
     THEN cast' = <<>> /\ used' = <<>> /\ fired' = <<>> /\ stopHit' = 0
          /\ hovered' = hovered
     ELSE LET h   == HitsFor(captured, "pointerMove", raw)
              st  == handleIntersects(h.hits, 1, "pointerMove", stopAt, Start)
              fin == handlePointerCancel(st, h.hits)
          IN  cast' = h.cast /\ used' = h.hits /\ fired' = fin.log
              /\ stopHit' = st.stopHit /\ hovered' = fin.hov
  /\ UNCHANGED <<ready, handlers, captured>>
  /\ UNCHANGED notPointer

\* onPointerLeave: handlePointerCancel(event, []).
PointerLeave ==
  /\ ev = "none"
  /\ ev' = "pointerLeave"
  /\ before' = hovered
  /\ LET fin == handlePointerCancel(Start, LeaveHits)
     IN  cast' = <<>> /\ used' = LeaveHits /\ fired' = fin.log /\ stopHit' = 0
         /\ hovered' = fin.hov
  /\ UNCHANGED <<ready, handlers, captured>>
  /\ UNCHANGED notPointer

\* onGotPointerCapture: remember the hits of the last known position.
GotPointerCapture(raw) ==
  /\ ev = "none"
  /\ ev' = "gotPointerCapture"
  /\ before' = hovered
  /\ captured' = <<intersect(raw)>>
  /\ cast' = <<intersect(raw)>> /\ used' = <<>> /\ fired' = <<>> /\ stopHit' = 0
  /\ UNCHANGED <<ready, handlers, hovered>>
  /\ UNCHANGED notPointer

\* onLostPointerCapture: forget the captured hits, then handlePointerCancel(event),
\* which raycasts through handleIntersects(event, () => null).
LostPointerCapture(raw) ==
  /\ ev = "none"
  /\ ev' = "lostPointerCapture"
  /\ before' = hovered
  /\ captured' = <<>>
  /\ LET h   == HitsFor(captured', "lostPointerCapture", raw)
         st  == handleIntersects(h.hits, 1, "lostPointerCapture", 0, Start)
         fin == handlePointerCancel(st, h.hits)
     IN  cast' = h.cast /\ used' = h.hits /\ fired' = fin.log
         /\ stopHit' = st.stopHit /\ hovered' = fin.hov
  /\ UNCHANGED <<ready, handlers>>
  /\ UNCHANGED notPointer

\* The handler has returned to the event loop: the record of the event is
\* dropped before the next event arrives.
Settle ==
  /\ ev # "none"
  /\ ev' = "none" /\ cast' = <<>> /\ used' = <<>> /\ fired' = <<>> /\ stopHit' = 0
  /\ before' = <<>>
  /\ UNCHANGED <<ready, handlers, hovered, captured>>
  /\ UNCHANGED notPointer

NextPointer ==
  \/ Activate
  \/ \E name \in PointerNames, raw \in RawHits :
       \E stopAt \in 0..Len(HitsFor(captured, name, raw).hits) :
         Pointer(name, raw, stopAt)
  \/ \E raw \in RawHits :
       \E stopAt \in 0..Len(HitsFor(captured, "pointerMove", raw).hits) :
         PointerMove(raw, stopAt)
  \/ PointerLeave
  \/ Settle
  \/ \E raw \in RawHits : GotPointerCapture(raw)
  \/ \E raw \in RawHits : LostPointerCapture(raw)

SpecPointer == Init /\ [][NextPointer]_vars

(***************************************************************************)
(* The frame subscriber list.  subscribe is the Canvas state's             *)
(* (src/unnamed/part_002, lines 88-91), called by useFrame with its ref    *)
(* and render priority (src/src/hooks.ts, lines 25-28).  The list keeps    *)
(* the callbacks in the order of the subscribe calls; the model keeps the  *)
(* priority argument of each call beside the callback.                     *)
(***************************************************************************)

\* subscribe(fn, main): state.current.subscribers.push(fn).
subscribe(subs, fn, priority) == Append(subs, [fn |-> fn, priority |-> priority])

\* The function subscribe returns: subscribers.filter(s => s !== fn).
unsubscribeLater(subs, fn) == subs

unsubscribe(subs, fn) == SelectSeq(subs, LAMBDA s : s.fn # fn)

\* A render priority that takes over the render loop: a positive one
\* ("negative indices ... will not take over the render-loop").
TakesOverNonZero(priority) == priority # 0

TakesOver(priority) == priority > 0

\* The subscribers a tick invokes, in order: the list, front to back.
RunSubscribers(subs) == subs

\* The scheduler's own render call, made after the subscribers have run when
\* no subscriber has taken over the render loop.
DefaultRender(subs) ==
  IF \E k \in 1..Len(subs) : TakesOver(subs[k].priority)
  THEN <<>>
  ELSE <<[fn |-> "render", priority |-> 0]>>

\* useFrame's effect: subscribe(ref, renderPriority).
Subscribe(fn, priority) ==
  /\ trace = <<>>
  /\ Len(subscribers) < MaxSubs
  /\ subscribers' = subscribe(subscribers, fn, priority)
  /\ UNCHANGED <<trace, notScheduler>>

\* The clean-up of useFrame's effect: unsubscribe().
Unsubscribe(fn) ==
  /\ trace = <<>>
  /\ \E k \in 1..Len(subscribers) : subscribers[k].fn = fn
  /\ subscribers' = unsubscribe(subscribers, fn)
  /\ UNCHANGED <<trace, notScheduler>>

\* One tick of the frame loop: the subscribers, then the default render.
Tick ==
  /\ trace = <<>>
  /\ trace' = RunSubscribers(subscribers) \o DefaultRender(subscribers)
  /\ UNCHANGED <<subscribers, notScheduler>>

\* The tick is over: its record is dropped before the list changes again.
EndTick ==
  /\ trace # <<>>
  /\ trace' = <<>>
  /\ UNCHANGED <<subscribers, notScheduler>>

NextScheduler ==
  \/ \E fn \in Callbacks, priority \in Priorities : Subscribe(fn, priority)
  \/ \E fn \in Callbacks : Unsubscribe(fn)
  \/ Tick
  \/ EndTick

SpecScheduler == Init /\ [][NextScheduler]_vars

(***************************************************************************)
(* The render loop.  Canvas passes the invalidateFrameloop property into   *)
(* its state and calls invalidate(state) when it mounts and whenever a     *)
(* redraw is wanted; the loop itself runs once per display refresh.  A     *)
(* tick takes the subscriber list as it is when the tick starts and        *)
(* invokes its entries one after the other; subscribe and unsubscribe may  *)
(* be called between any two of these invocations.                         *)
(***************************************************************************)

\* The frameloop modes: invalidateFrameloop false and true.
FrameloopModes == {"always", "demand"}

\* A refresh that runs whatever the mode and the pending redraw.
RunsAlways(mode, state) == TRUE

\* Whether a display refresh runs a tick: always in continuous mode, in
\* on-demand mode only when a redraw is pending.
Runs(mode, state) == mode = "always" \/ state = "PendingRedraw"

\* The state a completed tick leaves the scheduler in.
AfterTick(mode) == IF mode = "always" THEN "PendingRedraw" ELSE "Idle"

\* The entry a running tick invokes at step k: entry k of the list it took
\* when it started.
Entry(k) == <<inflight[k]>>

\* The invalidateFrameloop property the Canvas is mounted with is written into
\* the state by the effect that distributes the locals, before the loop's
\* first refresh.
SetFrameloop(mode) ==
  /\ refresh = "none"
  /\ loopState # "Running"
  /\ mode # frameloop
  /\ frameloop' = mode
  /\ UNCHANGED <<loopState, inflight, pos, ran, refresh, invalidated, mounted, goneBefore>>
  /\ UNCHANGED <<subscribers, notLoop>>

\* invalidate(): one redraw is pending.
Invalidate ==
  /\ loopState # "Running"
  /\ loopState' = "PendingRedraw"
  /\ invalidated' = TRUE
  /\ UNCHANGED <<frameloop, inflight, pos, ran, refresh, mounted, goneBefore>>
  /\ UNCHANGED <<subscribers, notLoop>>

\* A display refresh: the tick starts on the current subscriber list, or the
\* refresh does nothing.
Refresh ==
  /\ loopState # "Running"
  /\ IF Runs(frameloop, loopState)
     THEN /\ loopState' = "Running"
          /\ inflight' = subscribers
          /\ pos' = 1
          /\ ran' = <<>>
          /\ refresh' = "ran"
          /\ goneBefore' = Callbacks \ mounted
          /\ UNCHANGED invalidated
     ELSE /\ refresh' = "skipped"
          /\ UNCHANGED <<loopState, inflight, pos, ran, invalidated, goneBefore>>
  /\ UNCHANGED <<frameloop, mounted, subscribers, notLoop>>

\* The running tick invokes its next subscriber.
Step ==
  /\ loopState = "Running"
  /\ pos <= Len(inflight)
  /\ ran' = ran \o Entry(pos)
  /\ pos' = pos + 1
  /\ UNCHANGED <<frameloop, loopState, inflight, refresh, invalidated, mounted, goneBefore>>
  /\ UNCHANGED <<subscribers, notLoop>>

\* The running tick has invoked every subscriber: it renders and completes.
Complete ==
  /\ loopState = "Running"
  /\ pos > Len(inflight)
  /\ loopState' = AfterTick(frameloop)
  /\ invalidated' = FALSE
  /\ inflight' = <<>>
  /\ pos' = 0
  /\ ran' = <<>>
  /\ goneBefore' = {}
  /\ UNCHANGED <<frameloop, refresh, mounted>>
  /\ UNCHANGED <<subscribers, notLoop>>

\* useFrame's effect runs, between ticks or while one is in flight: the ref
\* of a mounted useFrame is subscribed once.
LoopSubscribe(fn) ==
  /\ fn \notin mounted
  /\ Len(subscribers) < MaxSubs
  /\ mounted' = mounted \cup {fn}
  /\ subscribers' = subscribe(subscribers, fn, 0)
  /\ goneBefore' = goneBefore \ {fn}
  /\ UNCHANGED <<frameloop, loopState, inflight, pos, ran, refresh, invalidated>>
  /\ UNCHANGED notLoop

\* The clean-up of useFrame's effect runs, between ticks or while one is in
\* flight.
LoopUnsubscribe(fn) ==
  /\ fn \in mounted
  /\ mounted' = mounted \ {fn}
  /\ subscribers' = unsubscribe(subscribers, fn)
  /\ UNCHANGED <<frameloop, loopState, inflight, pos, ran, refresh, invalidated, goneBefore>>
  /\ UNCHANGED notLoop

NextLoop ==
  \/ \E mode \in FrameloopModes : SetFrameloop(mode)
  \/ Invalidate
  \/ Refresh
  \/ Step
  \/ Complete
  \/ \E fn \in Callbacks : LoopSubscribe(fn)
  \/ \E fn \in Callbacks : LoopUnsubscribe(fn)

SpecLoop == Init /\ [][NextLoop]_vars

\* The display keeps calling the refresh callback, and a tick that has started
\* runs to its end.
SpecLoopFair ==
  SpecLoop /\ WF_vars(Refresh) /\ WF_vars(Step) /\ WF_vars(Complete)

(***************************************************************************)
(* ResizeContainer: the container measures itself and mounts <Content>     *)
(* (which creates the renderer and runs the mount effects) once it is      *)
(* ready.                                                                  *)
(***************************************************************************)

Sizes == [width : Widths, height : Heights]

\* !!size.width && !!size.height
NonZero(sz) == sz.width # 0 /\ sz.height # 0

\* ready without the flag: the last measurement alone.
ReadyNow(flag, sz) == NonZero(sz)

\* readyFlag.current = readyFlag.current || (!!size.width && !!size.height)
Ready(flag, sz) == flag \/ NonZero(sz)

\* Whether a render of ResizeContainer mounts a new <Content>, were one
\* mounted by every render that shows it.
AnyRender(now, was) == now

\* Whether a render of ResizeContainer mounts a new <Content>: it shows one
\* and the render before did not.
FirstRender(now, was) == now /\ ~was

\* useMeasure reports a new size: ResizeContainer renders again, works out
\* ready, and {ready && <Content/>} mounts Content (useState(renderer) calls
\* the renderer factory, the effect with no dependencies runs effects), keeps
\* it (neither runs again) or unmounts it.
Measure(sz) ==
  /\ sz # size
  /\ glCalls < MaxMounts
  /\ size' = sz
  /\ readyFlag' = Ready(readyFlag, sz)
  /\ content' = readyFlag'
  /\ glCalls' = IF FirstRender(content', content) THEN glCalls + 1 ELSE glCalls
  /\ effectRuns' = IF FirstRender(content', content) THEN effectRuns + 1 ELSE effectRuns
  /\ unmounts' = IF content /\ ~content' THEN unmounts + 1 ELSE unmounts
  /\ seenNonZero' = (seenNonZero \/ NonZero(sz))
  /\ UNCHANGED notResize

(***************************************************************************)
(* The mount of Canvas: the effect that renders the children into the      *)
(* scene runs after every render of Canvas, and renders <IsReady> with     *)
(* them once the measured size is non-zero; IsReady's effect calls         *)
(* onCreated and activates the canvas.                                     *)
(***************************************************************************)

\* A camera effect that does not look at ready.
CameraEffectUnguarded(rdy, sz, gs, ca) ==
  [aspect |-> OrZero(Div(sz.width, sz.height)),
   glSize |-> sz,
   camAspect |-> OrZero(Div(sz.width, sz.height)),
   effect |-> [ready |-> rdy, invalidated |-> TRUE]]

\* The effect that adjusts the default camera, run with the ready and the size
\* of a render, on the renderer size gs and the camera aspect ca: the aspect is
\* size.width / size.height || 0, and if (ready) the renderer is resized, the
\* camera is given the aspect and invalidate is called.
CameraEffect(rdy, sz, gs, ca) ==
  [aspect |-> OrZero(Div(sz.width, sz.height)),
   glSize |-> IF rdy THEN sz ELSE gs,
   camAspect |-> IF rdy THEN OrZero(Div(sz.width, sz.height)) ELSE ca,
   effect |-> [ready |-> rdy, invalidated |-> rdy]]

\* What an onCreated property can be: absent, a function that returns
\* undefined, one that returns an object that is no promise, one that returns
\* a promise.
CreatedKinds == {"none", "undefined", "value", "promise"}

\* IsReady's effect: if (onCreated) { result = onCreated(state.current);
\* if (result.then) return void result.then(activate) } activate().
\* Reading .then of undefined throws a TypeError.
IsReadyEffect(kind) ==
  CASE kind = "none" -> "active"
    [] kind = "undefined" -> "threw"
    [] kind = "value" -> "active"
    [] kind = "promise" -> "pending"

\* Canvas' useMeasure reports a new size and Canvas renders again; the camera
\* effect runs with the ready of this render; the render effect renders the
\* children and <IsReady> if the size is non-zero, which mounts IsReady and
\* runs its effect the first time; when that sets ready, Canvas renders once
\* more and the camera effect runs again.
CanvasMeasure(sz, kind) ==
  /\ ev = "none"
  /\ sz # bounds
  /\ bounds' = sz
  /\ IF sz.width > 0 /\ sz.height > 0 /\ isReady = "unmounted"
     THEN /\ created' = kind
          /\ isReady' = IsReadyEffect(kind)
          /\ ready' = (isReady' = "active")
     ELSE UNCHANGED <<created, isReady, ready>>
  /\ LET first == CameraEffect(ready, sz, glSize, camAspect)
         last == IF ready' # ready
                 THEN CameraEffect(ready', sz, first.glSize, first.camAspect)
                 ELSE first
     IN /\ aspect' = last.aspect
        /\ glSize' = last.glSize
        /\ camAspect' = last.camAspect
        /\ camEffect' = last.effect
  /\ UNCHANGED notMount

\* The promise onCreated returned resolves: activate; Canvas renders with ready
\* set and the camera effect runs.
Resolve ==
  /\ ev = "none"
  /\ isReady = "pending"
  /\ isReady' = "active"
  /\ ready' = TRUE
  /\ LET run == CameraEffect(TRUE, bounds, glSize, camAspect)
     IN /\ aspect' = run.aspect
        /\ glSize' = run.glSize
        /\ camAspect' = run.camAspect
        /\ camEffect' = run.effect
  /\ UNCHANGED <<bounds, created>>
  /\ UNCHANGED notMount

NextMount ==
  \/ \E sz \in Sizes : Measure(sz)
  \/ \E sz \in Sizes, kind \in CreatedKinds : CanvasMeasure(sz, kind)
  \/ Resolve
  \/ \E raw \in RawHits :
       \E stopAt \in 0..Len(HitsFor(captured, "click", raw).hits) : Pointer("click", raw, stopAt)
  \/ Settle

SpecMount == Init /\ [][NextMount]_vars

(***************************************************************************)
(* The hooks.  A hook reads stateContext: the value of the nearest         *)
(* provider above its caller (Canvas provides {...state.current}), or the  *)
(* context's default value, defaultRef, when there is none.  A context      *)
(* value is modelled by the set of its keys.                               *)
(***************************************************************************)

\* The keys of defaultRef, the value stateContext is created with.
DefaultContext ==
  {"ready", "subscribers", "manual", "active", "canvas", "gl", "camera", "scene", "size",
   "canvasRect", "frames", "aspect", "viewport", "captured", "invalidateFrameloop",
   "subscribe", "setManual", "setDefaultCamera", "invalidate"}

\* The keys of {...state.current}, state being {...defaultRef, subscribe,
\* setManual, setDefaultCamera, invalidate}.
ProviderValue ==
  DefaultContext \cup {"subscribe", "setManual", "setDefaultCamera", "invalidate"}

\* What the caller of a hook gets from useContextImpl(stateContext).
ContextValue(inside) == IF inside THEN ProviderValue ELSE DefaultContext

\* hooks.ts useContext: throws if the value has no subscribe key.
useContext(value) == IF "subscribe" \notin value THEN "threw" ELSE "returned"

Hooks == {"useFrame", "useThree", "useUpdate"}

\* useFrame(callback, renderPriority) is called and its effect runs: under a
\* Canvas it subscribes the ref; with no provider above, subscribe is
\* defaultRef's, which does nothing.
UseFrame(fn, priority, inside) ==
  /\ trace = <<>>
  /\ Len(subscribers) < MaxSubs
  /\ hookCall' = [hook |-> "useFrame", inside |-> inside,
                  result |-> useContext(ContextValue(inside))]
  /\ subscribers' = IF hookCall'.result = "returned" /\ inside
                    THEN subscribe(subscribers, fn, priority)
                    ELSE subscribers
  /\ UNCHANGED notHooks

\* useThree() or useUpdate(...) is called.
UseOther(hook, inside) ==
  /\ trace = <<>>
  /\ hookCall' = [hook |-> hook, inside |-> inside,
                  result |-> useContext(ContextValue(inside))]
  /\ UNCHANGED <<subscribers, notHooks>>

NextHooks ==
  \/ \E fn \in Callbacks, priority \in {0, 1}, inside \in BOOLEAN : UseFrame(fn, priority, inside)
  \/ \E hook \in {"useThree", "useUpdate"}, inside \in BOOLEAN : UseOther(hook, inside)
  \/ \E fn \in Callbacks : Unsubscribe(fn)

SpecHooks == Init /\ [][NextHooks]_vars

(***************************************************************************)
(* The registry of roots (the test renderer's render and unmount) and the  *)
(* scene a commit leaves.  render and unmount hand an update to            *)
(* updateContainer; the reconciler commits the updates of a root later,    *)
(* all that wait for that root in one pass, and then calls their           *)
(* callbacks.  An element is a tree of nodes [type, attach, children]; a   *)
(* native object is [type, children, slots].                               *)
(***************************************************************************)

\* The canvases render and unmount are called with.
Surfaces == {"c1", "c2"}

Node(type, attach, children) ==
  [type |-> type, attach |-> attach, children |-> children, shared |-> FALSE]

\* A node marked shared: its object is not the bridge's to dispose.
SharedNode(type, attach, children) ==
  [type |-> type, attach |-> attach, children |-> children, shared |-> TRUE]

\* A mesh whose geometry is shared and whose material is its own.
SharedMesh ==
  Node("Mesh", "", <<SharedNode("BoxGeometry", "", <<>>), Node("MeshBasicMaterial", "", <<>>)>>)

\* <mesh><boxBufferGeometry/><meshBasicMaterial/></mesh>
BoxMesh ==
  Node("Mesh", "", <<Node("BoxGeometry", "", <<>>), Node("MeshBasicMaterial", "", <<>>)>>)

\* The elements rendered: one that renders nothing, the composite of a group
\* with an attached colour and a mesh, and a mesh (with a shared geometry)
\* next to a group.
Elements == {"Empty", "Composite", "Pair"}

Tree(el) ==
  CASE el = "Empty" -> <<>>
    [] el = "Composite" -> <<Node("Group", "", <<Node("Color", "background", <<>>), BoxMesh>>)>>
    [] el = "Pair" -> <<SharedMesh, Node("Group", "", <<>>)>>

\* The options render is called with: none, or a size and a frameloop.
RenderProps ==
  { [size |-> [width |-> 0, height |-> 0], frameloop |-> "never"],
    [size |-> [width |-> 800, height |-> 600], frameloop |-> "always"] }

\* A bridge that attaches nothing: every node becomes a scene-graph child.
AttachSlotNone(node) == ""

\* The slot of its parent a node is assigned to: the one its attach names, the
\* geometry or material slot for a geometry or a material, none ("") otherwise.
AttachSlot(node) ==
  IF node.attach # "" THEN node.attach
  ELSE IF node.type \in {"BoxGeometry"} THEN "geometry"
  ELSE IF node.type \in {"MeshBasicMaterial"} THEN "material"
  ELSE ""

RECURSIVE Build(_)
RECURSIVE BuildChildren(_, _)
RECURSIVE BuildSlots(_, _)

\* The scene-graph children the nodes from index i on make, in order.
BuildChildren(nodes, i) ==
  IF i > Len(nodes) THEN <<>>
  ELSE (IF AttachSlot(nodes[i]) = "" THEN <<Build(nodes[i])>> ELSE <<>>)
       \o BuildChildren(nodes, i + 1)

\* The slots the nodes from index i on are assigned to.
BuildSlots(nodes, i) ==
  IF i > Len(nodes) THEN {}
  ELSE (IF AttachSlot(nodes[i]) # ""
        THEN {[slot |-> AttachSlot(nodes[i]), object |-> Build(nodes[i])]} ELSE {})
       \cup BuildSlots(nodes, i + 1)

\* The native object made for a node, with the nodes below it inserted.
Build(node) ==
  [type |-> node.type,
   children |-> BuildChildren(node.children, 1),
   slots |-> BuildSlots(node.children, 1),
   shared |-> node.shared]

EmptyScene == [type |-> "Scene", children |-> <<>>, slots |-> {}, shared |-> FALSE]

RECURSIVE Owned(_)
\* An object and everything below it: its children and the values of its slots.
Owned(obj) ==
  {obj} \cup UNION {Owned(obj.children[i]) : i \in 1..Len(obj.children)}
        \cup UNION {Owned(s.object) : s \in obj.slots}

\* The objects a commit removes from a scene: none when the element rendered
\* is the one the scene shows (its nodes are kept), else all that is below the
\* scene root.
Removed(scene, el, after) ==
  IF el # "null" /\ after = scene THEN {}
  ELSE UNION {Owned(scene.children[i]) : i \in 1..Len(scene.children)}
       \cup UNION {Owned(s.object) : s \in scene.slots}

\* The removed objects dispose is invoked on: all but the shared ones and the
\* scene root.
Disposed(removed) == {o \in removed : ~o.shared /\ o.type # "Scene"}

\* The objects of a root's state: their types, and whether they have a dispose
\* method (of three.js: the renderer and the scene have one).
StateObject(name) ==
  CASE name = "gl" -> [name |-> name, type |-> "WebGLRenderer", hasDispose |-> TRUE]
    [] name = "raycaster" -> [name |-> name, type |-> "Raycaster", hasDispose |-> FALSE]
    [] name = "camera" -> [name |-> name, type |-> "PerspectiveCamera", hasDispose |-> FALSE]
    [] name = "scene" -> [name |-> name, type |-> "Scene", hasDispose |-> TRUE]
    [] name = "state" -> [name |-> name, type |-> "", hasDispose |-> FALSE]

\* An unmount that disposes of the renderer only.
TeardownTargetsGlOnly == <<"gl">>

\* What unmount's callback hands to its dispose, in order.
TeardownTargets == <<"gl", "raycaster", "camera", "state">>

\* dispose(obj) of unmount: obj.dispose() if there is one and obj is no Scene,
\* then every property of obj is deleted.
dispose(obj) ==
  [name |-> obj.name, type |-> obj.type,
   native |-> (obj.hasDispose /\ obj.type # "Scene"), deleted |-> TRUE]

\* The callback of unmount: dispose of each target in turn.
Teardown == [i \in 1..Len(TeardownTargets) |-> dispose(StateObject(TeardownTargets[i]))]

\* A commit that inserts the new objects and leaves the old ones in place.
CommitSceneKeepsOld(scene, el) ==
  IF el = "null" THEN scene
  ELSE [scene EXCEPT !.children = @ \o BuildChildren(Tree(el), 1),
                     !.slots = @ \cup BuildSlots(Tree(el), 1)]

\* The scene after the commit of an element (or of null, which removes all):
\* the objects of the tree before are removed, those of the tree are inserted.
CommitScene(scene, el) ==
  IF el = "null" THEN [scene EXCEPT !.children = <<>>, !.slots = {}]
  ELSE [scene EXCEPT !.children = BuildChildren(Tree(el), 1),
                     !.slots = BuildSlots(Tree(el), 1)]

\* mockRoots.get(id) that finds nothing.
LookupNothing(roots, id) == {}

\* mockRoots.get(id): the entry of the canvas, if there is one.
Lookup(roots, id) == {r \in roots : r.id = id}

\* mockRoots.set(id, {fiber, store})
MapSet(roots, id, entry) == {r \in roots : r.id # id} \cup {entry}

\* mockRoots.delete(id)
MapDelete(roots, id) == {r \in roots : r.id # id}

\* createStore(..., {gl: new WebGLRenderer, size, frameloop: 'never', ...props})
createStore(fiber, props) ==
  [gl |-> fiber, size |-> props.size, frameloop |-> props.frameloop, scene |-> EmptyScene]

\* render(element, id, props)
Render(el, id, props) ==
  /\ call.op = "none"
  /\ Len(queue) < MaxQueue
  /\ LET found == Lookup(mockRoots, id)
         had == found # {}
         root == IF had THEN CHOOSE r \in found : TRUE
                 ELSE [id |-> id, fiber |-> made + 1, store |-> createStore(made + 1, props)]
     IN /\ had \/ made < MaxRoots
        /\ made' = IF had THEN made ELSE made + 1
        /\ mockRoots' = IF had THEN mockRoots ELSE MapSet(mockRoots, id, root)
        /\ queue' = Append(queue, [fiber |-> root.fiber, id |-> id, element |-> el])
  /\ call' = [op |-> "render", id |-> id, element |-> el, props |-> props,
              had |-> (\E r \in mockRoots : r.id = id),
              rootsBefore |-> mockRoots, madeBefore |-> made, queueBefore |-> queue]
  /\ UNCHANGED torn
  /\ UNCHANGED notRoots

\* unmount(id)
Unmount(id) ==
  /\ call.op = "none"
  /\ LET found == Lookup(mockRoots, id)
     IN /\ found # {} => Len(queue) < MaxQueue
        /\ queue' = IF found # {}
                    THEN Append(queue, [fiber |-> (CHOOSE r \in found : TRUE).fiber,
                                        id |-> id, element |-> "null"])
                    ELSE queue
  /\ call' = [op |-> "unmount", id |-> id,
              had |-> (\E r \in mockRoots : r.id = id),
              rootsBefore |-> mockRoots, madeBefore |-> made, queueBefore |-> queue]
  /\ UNCHANGED <<mockRoots, made, torn>>
  /\ UNCHANGED notRoots

\* The reconciler commits the updates waiting for the root of the oldest one:
\* the scene shows the element of the last of them, and the callback of every
\* unmount among them runs (dispose the state, mockRoots.delete(id)); the
\* callback of a second unmount finds the state disposed and throws.
Commit ==
  /\ call.op = "none"
  /\ queue # <<>>
  /\ LET f == queue[1].fiber
         root == CHOOSE r \in mockRoots : r.fiber = f
         ups == SelectSeq(queue, LAMBDA u : u.fiber = f)
         last == ups[Len(ups)]
         nulls == SelectSeq(ups, LAMBDA u : u.element = "null")
         scene == CommitScene(root.store.scene, last.element)
     IN /\ queue' = SelectSeq(queue, LAMBDA u : u.fiber # f)
        /\ mockRoots' = IF nulls # <<>> THEN MapDelete(mockRoots, last.id)
                        ELSE MapSet(mockRoots, root.id, [root EXCEPT !.store.scene = scene])
        /\ torn' = IF nulls # <<>> THEN torn \cup {last.id} ELSE torn
        /\ call' = [op |-> "commit", id |-> last.id, fiber |-> f, element |-> last.element,
                    unmounted |-> nulls # <<>>, threw |-> Len(nulls) > 1,
                    sceneBefore |-> root.store.scene, scene |-> scene,
                    removed |-> Removed(root.store.scene, last.element, scene),
                    disposed |-> Disposed(Removed(root.store.scene, last.element, scene)),
                    teardown |-> IF nulls # <<>> THEN Teardown ELSE <<>>]
  /\ UNCHANGED made
  /\ UNCHANGED notRoots

\* The call returns: its record is dropped.
Return ==
  /\ call.op # "none"
  /\ call' = [op |-> "none"]
  /\ UNCHANGED <<mockRoots, made, torn, queue>>
  /\ UNCHANGED notRoots

NextRoots ==
  \/ \E el \in Elements, id \in Surfaces, props \in RenderProps : Render(el, id, props)
  \/ \E id \in Surfaces : Unmount(id)
  \/ Commit
  \/ Return

SpecRoots == Init /\ [][NextRoots]_vars

(***************************************************************************)
(* The property applier.  A property name is its segments with the dashes  *)
(* between them, <<"position", "-", "x">> for position-x; the native       *)
(* object here is a group's [position |-> [x, y], renderOrder].            *)
(***************************************************************************)

\* The values the properties are given (the test moves position-x 3 -> 7).
PropValues == {3, 7}

\* The property names a diff carries.
PropKeys ==
  { <<"position", "-", "x">>, <<"position", "-", "y">>, <<"position">>, <<"renderOrder">> }

\* All diffs of a node: sequences of [key, value].
Diffs ==
  UNION {[1..n -> [key : PropKeys, value : PropValues]] : n \in 1..MaxDiff}

\* key.split('-'): the path of attributes the name leads along.
Path(key) == SelectSeq(key, LAMBDA t : t # "-")

\* The attributes with a set convention (a vector): a single value sets every
\* component, setScalar.
HasSet(name) == name \in {"position"}

RECURSIVE SetPath(_, _, _)
\* Descend along the path; at its end call the setter or assign the field.
SetPath(target, path, v) ==
  IF Len(path) = 1
  THEN IF HasSet(path[1])
       THEN [target EXCEPT ![path[1]] = [x |-> v, y |-> v]]
       ELSE [target EXCEPT ![path[1]] = v]
  ELSE [target EXCEPT ![path[1]] = SetPath(@, Tail(path), v)]

RECURSIVE applyPropsBackwards(_, _, _)
\* An applier that takes the entries of the diff from the last to the first.
applyPropsBackwards(obj, diff, i) ==
  IF i > Len(diff) THEN obj
  ELSE SetPath(applyPropsBackwards(obj, diff, i + 1), Path(diff[i].key), diff[i].value)

RECURSIVE applyProps(_, _, _)
\* Apply the entries of the diff from index i on, in the order of the diff.
applyProps(obj, diff, i) ==
  IF i > Len(diff) THEN obj
  ELSE applyProps(SetPath(obj, Path(diff[i].key), diff[i].value), diff, i + 1)

\* The commit of an update of the node's properties: the diff is applied at
\* once.  (applied keeps every entry applied since the last frame tick, and
\* the object as that tick found it.)
UpdateProps(diff) ==
  LET earlier == IF applied.op = "update" THEN applied.diff ELSE <<>>
      start == IF applied.op = "update" THEN applied.before ELSE object
  IN /\ Len(earlier) + Len(diff) <= MaxDiff
     /\ object' = applyProps(object, diff, 1)
     /\ applied' = [op |-> "update", diff |-> earlier \o diff, before |-> start]
     /\ UNCHANGED frame
     /\ UNCHANGED notProps

\* A frame tick: the frame is drawn from the object as it is.
PropsTick ==
  /\ applied.op = "update"
  /\ frame' = object
  /\ applied' = [op |-> "tick"]
  /\ UNCHANGED object
  /\ UNCHANGED notProps

NextProps ==
  \/ \E diff \in Diffs : UpdateProps(diff)
  \/ PropsTick

SpecProps == Init /\ [][NextProps]_vars

(***************************************************************************)
(* advanceFrames of the test renderer, on the root create() made.  It      *)
(* reads the store's state and its subscriber list once and invokes the    *)
(* subscribers from there; unmount's completion callback may run between   *)
(* two invocations (a subscriber unmounts the root).                       *)
(***************************************************************************)

\* storeSubscribers.forEach(subscriber => { for (i < frames) ... }): the
\* step after invocation (j, i), subscriber j at frame i.
NextCall(list, frames, j, i) ==
  IF i < frames THEN [j |-> j, i |-> i + 1]
  ELSE [j |-> j + 1, i |-> 1]

\* Whether the step is past the last invocation.
CallsDone(list, frames, step) == step.j > Len(list) \/ step.i > frames

\* Provider's effect: the root of the store is active.
ProviderEffect ==
  /\ rootState = "created"
  /\ rootState' = "active"
  /\ UNCHANGED <<internalSubs, adv, calls, ferr>>
  /\ UNCHANGED notFrames

\* A useFrame of the rendered tree subscribes its callback in the store.
StoreSubscribe(fn) ==
  /\ rootState = "active"
  /\ adv.frames = 0
  /\ Len(internalSubs) < MaxSubs
  /\ fn \notin Range(internalSubs)
  /\ internalSubs' = Append(internalSubs, fn)
  /\ UNCHANGED <<rootState, adv, calls, ferr>>
  /\ UNCHANGED notFrames

\* advanceFrames(frames, delta): const state = _store.getState(); const
\* storeSubscribers = state.internal.subscribers, which throws on a state
\* whose properties unmount has deleted.
AdvanceFrames(frames) ==
  /\ adv.frames = 0
  /\ rootState # "created"
  /\ calls' = <<>>
  /\ IF rootState = "disposed"
     THEN /\ ferr' = "TypeError"
          /\ UNCHANGED adv
     ELSE /\ ferr' = "none"
          /\ adv' = IF internalSubs = <<>> THEN [frames |-> 0]
                    ELSE [frames |-> frames, list |-> internalSubs, j |-> 1, i |-> 1]
  /\ UNCHANGED <<internalSubs, rootState>>
  /\ UNCHANGED notFrames

\* subscriber.ref.current(state, delta): the next invocation of the call in
\* progress.
AdvanceStep ==
  /\ adv.frames > 0
  /\ calls' = Append(calls, [fn |-> adv.list[adv.j], frame |-> adv.i, root |-> rootState])
  /\ LET step == NextCall(adv.list, adv.frames, adv.j, adv.i)
     IN adv' = IF CallsDone(adv.list, adv.frames, step) THEN [frames |-> 0]
               ELSE [adv EXCEPT !.j = step.j, !.i = step.i]
  /\ UNCHANGED <<internalSubs, rootState, ferr>>
  /\ UNCHANGED notFrames

\* The completion callback of unmount: the state is disposed of, its
\* properties (internal, the subscribers with it) are deleted.
UnmountDone ==
  /\ rootState = "active"
  /\ rootState' = "disposed"
  /\ internalSubs' = <<>>
  /\ UNCHANGED <<adv, calls, ferr>>
  /\ UNCHANGED notFrames

NextFrames ==
  \/ ProviderEffect
  \/ \E fn \in Callbacks : StoreSubscribe(fn)
  \/ \E frames \in 1..MaxFrames : AdvanceFrames(frames)
  \/ AdvanceStep
  \/ UnmountDone

SpecFrames == Init /\ [][NextFrames]_vars

(***************************************************************************)
(* useLoader.  loadingFn starts one load per URL and returns Promise.all   *)
(* of them; useAsset keeps the promise under the hook's arguments and, in  *)
(* every render, suspends on it, throws its error or returns its value.    *)
(* Values delivered are sequences: a single result is <<r>>.               *)
(***************************************************************************)

Urls == {"a", "b"}

\* The inputs of useLoader: a string, or a list of strings.
LoaderInputs ==
  {[kind |-> "string", urls |-> <<u>>] : u \in Urls}
  \cup {[kind |-> "list", urls |-> us] : us \in UNION {[1..n -> Urls] : n \in 1..MaxUrls}}

\* What the loader hands to onLoad for a URL, and the message of its error.
Data(url) == <<"data", url>>
Message(url) == <<"error", url>>

\* A Promise.all that waits for the loads still pending when one has failed.
PromiseAllWaits(p, urls, states, k) ==
  IF p.state # "pending" THEN p
  ELSE IF \A n \in 1..Len(states) : states[n] # "pending"
       THEN [state |-> "fulfilled",
             value |-> [n \in 1..Len(urls) |->
                          IF states[n] = "loaded" THEN Data(urls[n]) ELSE Message(urls[n])]]
       ELSE p

\* Promise.all after the promise of URL k has settled: rejected with the
\* reason of the first rejection, fulfilled with every result (in the order
\* of the URLs) once all have resolved; settled, it stays as it is.
PromiseAll(p, urls, states, k) ==
  IF p.state # "pending" THEN p
  ELSE IF states[k] = "failed"
       THEN [state |-> "rejected", value |-> <<Message(urls[k])>>]
  ELSE IF \A n \in 1..Len(states) : states[n] = "loaded"
       THEN [state |-> "fulfilled", value |-> [n \in 1..Len(urls) |-> Data(urls[n])]]
       ELSE p

\* A useLoader that returns results[0] whatever the input.
useLoaderFirst(in, p) ==
  CASE p.state = "pending" -> [kind |-> "suspended", value |-> <<>>]
    [] p.state = "rejected" -> [kind |-> "threw", value |-> p.value]
    [] p.state = "fulfilled" -> [kind |-> "result", value |-> <<p.value[1]>>]

\* What useLoader does in a render, given the promise kept for its arguments:
\* Array.isArray(input) ? results : results[0].
useLoader(in, p) ==
  CASE p.state = "pending" -> [kind |-> "suspended", value |-> <<>>]
    [] p.state = "rejected" -> [kind |-> "threw", value |-> p.value]
    [] p.state = "fulfilled" ->
         [kind |-> IF in.kind = "list" THEN "results" ELSE "result",
          value |-> IF in.kind = "list" THEN p.value ELSE <<p.value[1]>>]

\* The first render of a component that calls useLoader(Proto, input): nothing
\* is kept for the arguments, so loadingFn runs and the render suspends.
UseLoader(in) ==
  /\ input.kind = "none"
  /\ input' = in
  /\ loads' = [n \in 1..Len(in.urls) |-> "pending"]
  /\ started' = [n \in 1..Len(in.urls) |-> 1]
  /\ settled' = <<>>
  /\ promise' = [state |-> "pending", value |-> <<>>]
  /\ hookResult' = useLoader(in, promise')
  /\ UNCHANGED notLoader

\* The loader calls onLoad for URL k.
LoadDone(k) ==
  /\ k \in 1..Len(loads)
  /\ loads[k] = "pending"
  /\ loads' = [loads EXCEPT ![k] = "loaded"]
  /\ promise' = PromiseAll(promise, input.urls, loads', k)
  /\ settled' = Append(settled, k)
  /\ UNCHANGED <<input, started, hookResult>>
  /\ UNCHANGED notLoader

\* The loader calls onError for URL k.
LoadFail(k) ==
  /\ k \in 1..Len(loads)
  /\ loads[k] = "pending"
  /\ loads' = [loads EXCEPT ![k] = "failed"]
  /\ promise' = PromiseAll(promise, input.urls, loads', k)
  /\ settled' = Append(settled, k)
  /\ UNCHANGED <<input, started, hookResult>>
  /\ UNCHANGED notLoader

\* The component renders again (React retries it when the promise settles):
\* the promise kept for the arguments is found, no load is started.
Rerender ==
  /\ input.kind # "none"
  /\ hookResult' = useLoader(input, promise)
  /\ UNCHANGED <<input, loads, started, settled, promise>>
  /\ UNCHANGED notLoader

NextLoader ==
  \/ \E in \in LoaderInputs : UseLoader(in)
  \/ \E k \in 1..MaxUrls : LoadDone(k)
  \/ \E k \in 1..MaxUrls : LoadFail(k)
  \/ Rerender

SpecLoader == Init /\ [][NextLoader]_vars

(***************************************************************************)
(* setManual.  The children of the internal scene are objects 1, 2, ...;   *)
(* scene.remove(child) takes the child out of scene.children in place      *)
(* (three.js: children.splice(children.indexOf(child), 1)), and forEach    *)
(* visits the indices below the length the array had when it started that  *)
(* are still in the array when their turn comes.                           *)
(***************************************************************************)

\* scene.remove(child)
SceneRemove(children, child) ==
  IF child \notin Range(children) THEN children
  ELSE LET at == CHOOSE n \in 1..Len(children) :
                    children[n] = child /\ \A m \in 1..(n - 1) : children[m] # child
       IN [n \in 1..(Len(children) - 1) |-> IF n < at THEN children[n] ELSE children[n + 1]]

RECURSIVE ForEachRemove(_, _, _)
\* scene.children.forEach(child => scene.remove(child)) from index k on, len
\* the length of the array when forEach was called.
ForEachRemove(children, k, len) ==
  IF k > len THEN children
  ELSE IF k > Len(children) THEN ForEachRemove(children, k + 1, len)
  ELSE ForEachRemove(SceneRemove(children, children[k]), k + 1, len)

\* The reconciler adds an object to the internal scene.
AddChild(o) ==
  /\ o \notin Range(sceneChildren)
  /\ sceneChildren' = Append(sceneChildren, o)
  /\ manualCall' = [flag |-> "none", before |-> <<>>]
  /\ UNCHANGED manual
  /\ UNCHANGED notManual

\* setManual(takeOverRenderloop)
SetManual(flag) ==
  /\ manual' = flag
  /\ sceneChildren' = IF flag THEN ForEachRemove(sceneChildren, 1, Len(sceneChildren))
                      ELSE sceneChildren
  /\ manualCall' = [flag |-> IF flag THEN "true" ELSE "false", before |-> sceneChildren]
  /\ UNCHANGED notManual

NextManual ==
  \/ \E o \in 1..MaxChildren : AddChild(o)
  \/ \E flag \in BOOLEAN : SetManual(flag)

SpecManual == Init /\ [][NextManual]_vars

(***************************************************************************)
(* Several Canvas instances.  Each builds its state as {...defaultRef,     *)
(* subscribe, ...}: the spread copies the reference to the one array       *)
(* defaultRef.subscribers, which subscribe pushes to; the function         *)
(* subscribe returns assigns a filtered copy to the Canvas' own state.     *)
(***************************************************************************)

\* state.current.subscribers of a Canvas.
SubscribersOf(c) == IF sharesDefault[c] THEN defaultSubs ELSE ownSubs[c]

\* subscribe(fn) of Canvas c: state.current.subscribers.push(fn).
CanvasSubscribe(c, fn) ==
  /\ Len(SubscribersOf(c)) < MaxSubs
  /\ IF sharesDefault[c]
     THEN /\ defaultSubs' = Append(defaultSubs, [canvas |-> c, fn |-> fn])
          /\ UNCHANGED ownSubs
     ELSE /\ ownSubs' = [ownSubs EXCEPT ![c] = Append(@, [canvas |-> c, fn |-> fn])]
          /\ UNCHANGED defaultSubs
  /\ UNCHANGED sharesDefault
  /\ UNCHANGED notCanvases

\* The function subscribe(fn) of Canvas c returned is called:
\* state.current.subscribers = state.current.subscribers.filter(s => s !== fn).
CanvasUnsubscribe(c, fn) ==
  /\ [canvas |-> c, fn |-> fn] \in Range(SubscribersOf(c))
  /\ ownSubs' = [ownSubs EXCEPT ![c] =
                   SelectSeq(SubscribersOf(c), LAMBDA e : e # [canvas |-> c, fn |-> fn])]
  /\ sharesDefault' = [sharesDefault EXCEPT ![c] = FALSE]
  /\ UNCHANGED defaultSubs
  /\ UNCHANGED notCanvases

\* The callbacks the components of each Canvas subscribe.
CanvasCallbacks == {"f"}

NextCanvases ==
  \/ \E c \in Canvases, fn \in CanvasCallbacks : CanvasSubscribe(c, fn)
  \/ \E c \in Canvases, fn \in CanvasCallbacks : CanvasUnsubscribe(c, fn)

SpecCanvases == Init /\ [][NextCanvases]_vars

(***************************************************************************)
(* useFrame (src/src/hooks.ts, lines 19-30): a ref holds the callback, a   *)
(* layout effect keeps ref.current at the callback of the last render, and *)
(* an effect that depends on renderPriority subscribes the ref and         *)
(* unsubscribes it in its clean-up.  The hooks are those of components of  *)
(* the Canvas instances above.                                             *)
(***************************************************************************)

\* The Canvas the component of a hook is rendered in.
HookCanvas(u) == IF u = "u1" THEN "A" ELSE "B"

\* The callbacks and render priorities a component passes to useFrame.
FrameCallbacks == {"f", "g"}

FramePriorities == {0, 1}

\* The subscriber entry of a hook's ref.
RefEntry(u) == [canvas |-> HookCanvas(u), fn |-> u]

\* state.current.subscribers.filter(s => s !== fn)
FilterOut(subs, entry) == SelectSeq(subs, LAMBDA e : e # entry)

\* The effect's clean-up: unsubscribe().
Cleanup(subs, entry) == FilterOut(subs, entry)

\* The hook's component mounts: useRef(callback), then the effect runs
\* subscribe(ref, renderPriority).
MountFrame(u, cb, p) ==
  /\ ~frameHooks[u].mounted
  /\ Len(SubscribersOf(HookCanvas(u))) < MaxSubs
  /\ IF sharesDefault[HookCanvas(u)]
     THEN /\ defaultSubs' = Append(defaultSubs, RefEntry(u))
          /\ UNCHANGED ownSubs
     ELSE /\ ownSubs' = [ownSubs EXCEPT ![HookCanvas(u)] = Append(@, RefEntry(u))]
          /\ UNCHANGED defaultSubs
  /\ frameHooks' = [frameHooks EXCEPT ![u] = [mounted |-> TRUE, callback |-> cb, priority |-> p]]
  /\ ticked' = [canvas |-> "none", calls |-> <<>>]
  /\ UNCHANGED sharesDefault
  /\ UNCHANGED notUseFrame

\* The component renders with another callback and the same priority: the
\* layout effect sets ref.current, the subscribing effect does not run.
SetCallback(u, cb) ==
  /\ frameHooks[u].mounted
  /\ cb # frameHooks[u].callback
  /\ frameHooks' = [frameHooks EXCEPT ![u].callback = cb]
  /\ ticked' = [canvas |-> "none", calls |-> <<>>]
  /\ UNCHANGED <<defaultSubs, ownSubs, sharesDefault>>
  /\ UNCHANGED notUseFrame

\* The component renders with another renderPriority: the effect's clean-up
\* unsubscribes, then the effect subscribes again.
SetPriority(u, p) ==
  /\ frameHooks[u].mounted
  /\ p # frameHooks[u].priority
  /\ ownSubs' = [ownSubs EXCEPT ![HookCanvas(u)] =
                   Append(Cleanup(SubscribersOf(HookCanvas(u)), RefEntry(u)), RefEntry(u))]
  /\ sharesDefault' = [sharesDefault EXCEPT ![HookCanvas(u)] = FALSE]
  /\ frameHooks' = [frameHooks EXCEPT ![u].priority = p]
  /\ ticked' = [canvas |-> "none", calls |-> <<>>]
  /\ UNCHANGED defaultSubs
  /\ UNCHANGED notUseFrame

\* The component unmounts: the effect's clean-up unsubscribes.
UnmountFrame(u) ==
  /\ frameHooks[u].mounted
  /\ ownSubs' = [ownSubs EXCEPT ![HookCanvas(u)] =
                   Cleanup(SubscribersOf(HookCanvas(u)), RefEntry(u))]
  /\ sharesDefault' = [sharesDefault EXCEPT ![HookCanvas(u)] = FALSE]
  /\ frameHooks' = [frameHooks EXCEPT ![u].mounted = FALSE]
  /\ ticked' = [canvas |-> "none", calls |-> <<>>]
  /\ UNCHANGED defaultSubs
  /\ UNCHANGED notUseFrame

\* A tick of the loop of Canvas c: every subscribed ref's current callback
\* is invoked, in the order of the list.
FrameTick(c) ==
  /\ ticked.canvas # c
  /\ ticked' = [canvas |-> c,
                calls |-> [k \in 1..Len(SubscribersOf(c)) |->
                             [ref |-> SubscribersOf(c)[k].fn,
                              callback |-> frameHooks[SubscribersOf(c)[k].fn].callback]]]
  /\ UNCHANGED <<frameHooks, defaultSubs, ownSubs, sharesDefault>>
  /\ UNCHANGED notUseFrame

NextUseFrame ==
  \/ \E u \in FrameHooks, cb \in FrameCallbacks, p \in FramePriorities : MountFrame(u, cb, p)
  \/ \E u \in FrameHooks, cb \in FrameCallbacks : SetCallback(u, cb)
  \/ \E u \in FrameHooks, p \in FramePriorities : SetPriority(u, p)
  \/ \E u \in FrameHooks : UnmountFrame(u)
  \/ \E c \in Canvases : FrameTick(c)

SpecUseFrame == Init /\ [][NextUseFrame]_vars

(***************************************************************************)
(* The test renderer: create renders the element wrapped in Provider and   *)
(* context.Provider, update hands the new element to the container as it   *)
(* is, getInstance dives two fibers below the root.                        *)
(***************************************************************************)

\* The most updates one renderer is given.
MaxUpdates == 2

RECURSIVE FirstPath(_)
\* The fibers of a tree from its first node down the first children.
FirstPath(nodes) ==
  IF nodes = <<>> THEN <<>> ELSE <<nodes[1].type>> \o FirstPath(nodes[1].children)

\* <Provider store={store} element={element} />, which renders
\* <context.Provider value={store}>{element}</context.Provider>
ProviderWrap(el) == <<"Provider", "context.Provider">> \o FirstPath(Tree(el))

\* The container's child after reconciler.updateContainer(newElement, fiber, ...)
\* had the element been wrapped as render wraps it.
UpdateContainerWrapped(el) == ProviderWrap(el)

\* The container's child after reconciler.updateContainer(newElement, fiber, ...)
UpdateContainer(el) == FirstPath(Tree(el))

\* getInstance(): root.current = fiber.current.child.child; null without it,
\* else getPublicRootInstance(root), the instance of root.current.child.
getInstance(path) ==
  IF Len(path) < 2 THEN "null"
  ELSE IF Len(path) < 3 THEN "null" ELSE path[3]

\* useContext(context) in a component at position k of the path: the value
\* of the nearest context.Provider above it, the context's default without.
UseContextAt(path, k) ==
  IF \E i \in 1..(k - 1) : path[i] = "context.Provider" THEN "store" ELSE "default"

\* create(element)
Create(el) ==
  /\ testRoot = "none"
  /\ testRoot' = "mounted"
  /\ rootChild' = ProviderWrap(el)
  /\ history' = <<el>>
  /\ tcall' = [op |-> "create", result |-> "renderer"]
  /\ UNCHANGED notRenderer

\* renderer.update(newElement): nothing without a registry entry.
TestUpdate(el) ==
  /\ testRoot # "none"
  /\ Len(history) <= MaxUpdates
  /\ rootChild' = IF testRoot = "mounted" THEN UpdateContainer(el) ELSE rootChild
  /\ history' = IF testRoot = "mounted" THEN Append(history, el) ELSE history
  /\ tcall' = [op |-> "update", result |-> IF testRoot = "mounted" THEN "updated" ELSE "nothing"]
  /\ UNCHANGED testRoot
  /\ UNCHANGED notRenderer

\* renderer.getInstance(): without a registry entry fiber is undefined and
\* fiber.current throws.
GetInstance ==
  /\ testRoot # "none"
  /\ tcall' = [op |-> "getInstance",
               result |-> IF testRoot = "mounted" THEN getInstance(rootChild) ELSE "TypeError"]
  /\ UNCHANGED <<testRoot, rootChild, history>>
  /\ UNCHANGED notRenderer

\* A hook of the user's top-level element reads the store context.
ReadContext ==
  /\ testRoot = "mounted"
  /\ Tree(history[Len(history)]) # <<>>
  /\ LET top == Tree(history[Len(history)])[1].type
         k == CHOOSE i \in 1..Len(rootChild) :
                rootChild[i] = top /\ \A j \in 1..(i - 1) : rootChild[j] # top
     IN tcall' = [op |-> "useContext", result |-> UseContextAt(rootChild, k)]
  /\ UNCHANGED <<testRoot, rootChild, history>>
  /\ UNCHANGED notRenderer

\* renderer.unmount(), its completion callback run: the entry is deleted.
TestUnmount ==
  /\ testRoot = "mounted"
  /\ testRoot' = "unmounted"
  /\ rootChild' = <<>>
  /\ tcall' = [op |-> "unmount", result |-> "nothing"]
  /\ UNCHANGED history
  /\ UNCHANGED notRenderer

NextRenderer ==
  \/ \E el \in Elements : Create(el)
  \/ \E el \in Elements : TestUpdate(el)
  \/ GetInstance
  \/ ReadContext
  \/ TestUnmount

SpecRenderer == Init /\ [][NextRenderer]_vars

(***************************************************************************)
(* Properties of the pointer layer.  Each is stated on the record of the   *)
(* event handled last (ev, cast, used, fired, stopHit) and on the hover    *)
(* map before (before) and after (hovered) it.                             *)
(***************************************************************************)

\* How often handler name of object o was invoked during the last event.
Count(o, name) ==
  Cardinality({k \in 1..Len(fired) : fired[k].object = o /\ fired[k].handler = name})

\* Whether any handler of object o was invoked during the last event.
Touched(o) == \E k \in 1..Len(fired) : fired[k].object = o

\* The handler names handleIntersects' callback dispatches for the last event.
DispatchNames == IF ev = "pointerMove" THEN {"pointerMove", "pointerOver"} ELSE {ev}

IsDispatch == ev \in PointerNames \cup {"pointerMove"}

\* Hit i was reached by the dispatch loop of the last event.
Reached(i) == i \in 1..Len(used) /\ (stopHit = 0 \/ i <= stopHit)

\* The dispatch of the last pointer-move ended in the "previously hovered and
\* stopped" branch of the object at the hit it stopped at.
EndedAtStoppedHover ==
  /\ stopHit # 0
  /\ "pointerOver" \in Has(used[stopHit])
  /\ EntryStopped(before, used[stopHit])

\* C1: for every pointer, click or wheel event the handlers are dispatched to
\* the hits in ascending distance order (the order of the hit list, nearest
\* first), every reached hit that has the handler is served, and once an
\* invoked handler has called stopPropagation no handler of a farther hit is
\* dispatched for that event.
C1_NearestFirstUntilStopped ==
  IsDispatch =>
    /\ \A k \in 1..Len(fired) : fired[k].hit > 0 =>
         /\ fired[k].hit <= Len(used)
         /\ fired[k].object = used[fired[k].hit]
         /\ fired[k].handler \in DispatchNames
    /\ \A j, k \in 1..Len(fired) : (j < k /\ fired[j].hit > 0 /\ fired[k].hit > 0) =>
         /\ fired[j].hit <= fired[k].hit
         /\ fired[j].stop => fired[k].hit = fired[j].hit
    /\ \A i \in 1..Len(used) : (Reached(i) /\ ev # "pointerMove" /\ ev \in Has(used[i])) =>
         \E k \in 1..Len(fired) : fired[k].hit = i /\ fired[k].handler = ev
    /\ \A i \in 1..Len(used) : (Reached(i) /\ ev = "pointerMove" /\ "pointerMove" \in Has(used[i])) =>
         \E k \in 1..Len(fired) : fired[k].hit = i /\ fired[k].handler = "pointerMove"

\* C1 witness: a click on two objects that both handle click, stopped by the
\* nearer one.
C1_Witness ==
  /\ ev = "click" /\ Len(used) = 2 /\ used[1] # used[2]
  /\ "click" \in Has(used[1]) /\ "click" \in Has(used[2])
  /\ stopHit = 1 /\ Len(fired) = 1 /\ fired[1].stop

\* x and y are two objects that both have pointerOver and pointerOut handlers.
HoverPair(x, y) ==
  /\ x # y /\ handlers[x] # <<>> /\ handlers[y] # <<>>
  /\ {"pointerOver", "pointerOut"} \subseteq Has(x)
  /\ {"pointerOver", "pointerOut"} \subseteq Has(y)

\* C2: with A (near) and B (far) both handling pointerOver and pointerOut and
\* neither hovered, a pointer-move that hits A then B and is stopped by A's
\* handler fires pointerOver for A only and books only A; a pointer-move that
\* follows with only A hovered and hits neither fires pointerOut for A only,
\* and B gets no handler call and no hover entry in either move.
C2_HoverScenario ==
  \A x, y \in SceneObjects : (ev = "pointerMove" /\ HoverPair(x, y)) =>
    /\ (used = <<x, y>> /\ ~HasEntry(before, x) /\ ~HasEntry(before, y)
          /\ \E k \in 1..Len(fired) : fired[k].object = x /\ fired[k].stop) =>
         /\ Count(x, "pointerOver") = 1
         /\ ~Touched(y)
         /\ hovered = Append(before, [object |-> x, stopped |-> TRUE])
    /\ (before = <<[object |-> x, stopped |-> TRUE]>>
          /\ x \notin Range(used) /\ y \notin Range(used)) =>
         /\ Count(x, "pointerOut") = 1 /\ Count(x, "pointerOver") = 0
         /\ ~Touched(y)
         /\ hovered = <<>>

\* C2 witness: the second move of the scenario, A leaving after it had stopped
\* propagation when it was hovered.
C2_Witness ==
  /\ ev = "pointerMove" /\ HoverPair("A", "B")
  /\ before = <<[object |-> "A", stopped |-> TRUE]>>
  /\ used = <<>>
  /\ Count("A", "pointerOut") = 1 /\ hovered = <<>>

\* Object o occurs in the hit list of the last event, and only at hits
\* farther than the one dispatch stopped at.
Farther(o) ==
  /\ stopHit # 0
  /\ \E i \in 1..Len(used) : used[i] = o
  /\ \A i \in 1..Len(used) : used[i] = o => i > stopHit

C4_Original ==
  ev = "pointerMove" =>
     \A o \in Range(used) : ~HasEntry(before, o) =>
        Count(o, "pointerOver") = 1 /\ HasEntry(hovered, o)

\* C4 as amended: on a pointer-move each object that has a pointerOver
\* handler and no hover entry, at a hit the dispatch reaches, is booked and
\* has pointerOver fired exactly once; its entry is there after the move unless
\* the dispatch went on to a stopped hover, which evicts it again.  An object
\* without a pointerOver handler, or only at hits behind the one that stopped
\* propagation, gets neither entry nor pointerOver.
C4_ReachedUnhoveredIsBooked ==
  ev = "pointerMove" =>
     \A o \in Range(used) : ~HasEntry(before, o) =>
        IF "pointerOver" \in Has(o) /\ \E i \in 1..Len(used) : used[i] = o /\ Reached(i)
        THEN /\ Count(o, "pointerOver") = 1
             /\ HasEntry(hovered, o) <=> ~(EndedAtStoppedHover /\ used[stopHit] # o)
        ELSE Count(o, "pointerOver") = 0 /\ ~HasEntry(hovered, o)

\* C4 witness: two objects booked in one move.
C4_Witness ==
  /\ ev = "pointerMove" /\ before = <<>> /\ Len(used) = 2 /\ used[1] # used[2]
  /\ Count(used[1], "pointerOver") = 1 /\ Count(used[2], "pointerOver") = 1
  /\ Len(hovered) = 2

\* C5: on every pointer-move each object that had a hover entry and is not in
\* the hit list of the move receives pointerOut once (when it has that handler)
\* and loses its entry, and after the move every hover entry belongs to an
\* object of that hit list.
C5_UnhoverOutsideHits ==
  ev = "pointerMove" =>
    /\ \A o \in SceneObjects : (HasEntry(before, o) /\ o \notin Range(used)) =>
         /\ ~HasEntry(hovered, o)
         /\ "pointerOut" \in Has(o) => Count(o, "pointerOut") = 1
    /\ \A k \in 1..Len(hovered) : hovered[k].object \in Range(used)

\* C5 witness: a move that leaves one hovered object and stays on another.
C5_Witness ==
  /\ ev = "pointerMove" /\ Len(before) = 2 /\ Len(hovered) = 1 /\ Len(used) > 0
  /\ \E o \in SceneObjects : HasEntry(before, o) /\ o \notin Range(used)
                             /\ Count(o, "pointerOut") = 1

\* C6: when the pointer leaves the canvas every hovered object receives
\* exactly one pointerOut (when it has that handler), nothing else is invoked,
\* and the hover map is empty afterwards, with or without an active capture.
C6_LeaveTearsDownHover ==
  ev = "pointerLeave" =>
    /\ hovered = <<>>
    /\ \A o \in SceneObjects : HasEntry(before, o) =>
         Count(o, "pointerOut") = (IF "pointerOut" \in Has(o) THEN 1 ELSE 0)
    /\ \A k \in 1..Len(fired) :
         fired[k].handler = "pointerOut" /\ HasEntry(before, fired[k].object)

\* C6 witness: leaving with two hovered objects while a capture that holds
\* both of them is active.
C6_Witness ==
  /\ ev = "pointerLeave" /\ Len(before) = 2 /\ Len(fired) = 2 /\ hovered = <<>>
  /\ captured # <<>> /\ Len(captured[1]) = 2

\* C7: while a capture is active, pointer-move, pointer-down and pointer-up
\* work on the hit list recorded at got-capture and make no raycast; click and
\* wheel always work on a fresh raycast; lost-capture clears the recorded
\* list before it re-evaluates hover on a fresh raycast, and an event handled
\* with no capture active works on a fresh raycast.
C7_CapturedHitsReused ==
  /\ (ready /\ ev \in {"pointerMove", "pointerDown", "pointerUp"} /\ captured # <<>>) =>
        cast = <<>> /\ used = captured[1]
  /\ (ready /\ ev \in {"click", "wheel"}) => cast = <<used>>
  /\ ev = "gotPointerCapture" => captured = cast /\ cast # <<>>
  /\ ev = "lostPointerCapture" => captured = <<>> /\ cast = <<used>>
  /\ (ready /\ IsDispatch /\ captured = <<>>) => cast = <<used>>

\* C7 witness: a pointer-move served from a captured hit list of two objects.
C7_Witness ==
  /\ ready /\ ev = "pointerMove" /\ captured # <<>> /\ Len(captured[1]) = 2
  /\ used = captured[1] /\ Len(fired) > 0

(***************************************************************************)
(* Properties of the frame subscriber list, stated on the record of the    *)
(* last tick (trace) and the list it ran on (subscribers, which no action  *)
(* changes before the tick's record is dropped).                           *)
(***************************************************************************)

\* The callbacks of the last tick's record, without the default render.
Invoked == SelectSeq(trace, LAMBDA t : t.fn # "render")

\* How often the last tick made the default render.
Renders == Cardinality({k \in 1..Len(trace) : trace[k].fn = "render"})

\* C8 as claimed: on every tick the subscribers are invoked in non-decreasing
\* priority order, subscribers of equal priority in the order in which they
\* subscribed, and every subscriber is invoked.
C8_PriorityOrder ==
  trace # <<>> =>
    /\ \A j, k \in 1..Len(Invoked) : j < k => Invoked[j].priority <= Invoked[k].priority
    /\ \A j, k \in 1..Len(subscribers) :
         (j < k /\ subscribers[j].priority = subscribers[k].priority) =>
            \E a, b \in 1..Len(Invoked) :
               a < b /\ Invoked[a] = subscribers[j] /\ Invoked[b] = subscribers[k]
    /\ \A k \in 1..Len(subscribers) :
         \E a \in 1..Len(Invoked) : Invoked[a] = subscribers[k]

C10_NegativePriorityOnlySorts ==
  (trace # <<>> /\ \A k \in 1..Len(subscribers) : subscribers[k].priority <= 0) =>
    /\ Renders = 1 /\ trace[Len(trace)].fn = "render"
    /\ \A j, k \in 1..Len(Invoked) : j < k => Invoked[j].priority <= Invoked[k].priority

(***************************************************************************)
(* Properties of the render loop.                                          *)
(***************************************************************************)

\* The moves of the scheduler's state machine.
LoopMove ==
  \/ loopState' = loopState
  \/ loopState = "Idle" /\ loopState' = "PendingRedraw" /\ invalidated'
  \/ loopState = "PendingRedraw" /\ loopState' = "Running"
  \/ loopState = "Running" /\ loopState' = "Idle" /\ frameloop = "demand"
  \/ loopState = "Running" /\ loopState' = "PendingRedraw" /\ frameloop = "always"

C13_ReadyIsALatch ==
  /\ [](content => seenNonZero)
  /\ [](content = readyFlag)
  /\ [](unmounts = 0)
  /\ [][readyFlag => (readyFlag' /\ content')]_vars
  /\ [][ready => ready']_vars

\* C13 witness: the content is mounted while the last measurement reports a
\* zero height.
C13_Witness ==
  /\ readyFlag /\ content /\ size = [width |-> 800, height |-> 0]

\* C14: as long as no measurement has reported a non-zero size there is no
\* <Content>, no renderer and no mount effect; from the first non-zero
\* measurement on, over every later measurement, the renderer factory has run
\* exactly once and the mount effects have run exactly once.
C14_MountsExactlyOnce ==
  /\ ~seenNonZero => (~content /\ glCalls = 0 /\ effectRuns = 0)
  /\ seenNonZero => (content /\ glCalls = 1 /\ effectRuns = 1)

\* C14 witness: after the mount, a measurement of zero width and then one of
\* another width have left the one renderer and the one run of the effects.
C14_Witness ==
  /\ seenNonZero /\ size = [width |-> 0, height |-> 600]
  /\ content /\ glCalls = 1 /\ effectRuns = 1

\* C15 as claimed: once IsReady's effect has run, the canvas is ready right
\* away when there is no onCreated or when onCreated returned without a
\* promise, and not before the promise resolves when it returned one; a
\* canvas is ready only through activate, and only a ready canvas handles a
\* pointer event.
C15_ReadyAfterCreated ==
  /\ (isReady # "unmounted" /\ created \in {"none", "undefined", "value"}) => ready
  /\ (created = "promise" /\ isReady = "pending") => ~ready
  /\ (created = "promise" /\ isReady = "active") => ready
  /\ ready => isReady = "active"
  /\ fired # <<>> => ready

(***************************************************************************)
(* Properties of the hooks.                                                *)
(***************************************************************************)

\* C16 as claimed: a call of useFrame, useThree or useUpdate throws exactly
\* when no Canvas provides the state above the caller.
C16_HooksThrowOutsideCanvas ==
  hookCall.hook \in Hooks =>
    (hookCall.result = "threw" <=> ~hookCall.inside)

\* The types of a list of native objects, in order.
Types(objects) == [i \in 1..Len(objects) |-> objects[i].type]

\* C17: the registry holds at most one root per surface; the first render on
\* a surface creates its store and root; a later render on it reuses both and
\* leaves the store (its gl, size and frameloop) as it was; unmount of a
\* surface with no root changes nothing; after an unmount has completed the
\* surface has no entry, so the next render on it creates a fresh root.
C17_OneRootPerSurface ==
  /\ \A r1, r2 \in mockRoots : r1.id = r2.id => r1 = r2
  /\ (call.op = "render" /\ ~call.had) =>
       /\ made = call.madeBefore + 1
       /\ mockRoots = call.rootsBefore \cup
            {[id |-> call.id, fiber |-> made,
              store |-> [gl |-> made, size |-> call.props.size,
                         frameloop |-> call.props.frameloop, scene |-> EmptyScene]]}
       /\ \A r \in call.rootsBefore : r.fiber # made /\ r.store.gl # made
  /\ (call.op = "render" /\ call.had) =>
       /\ mockRoots = call.rootsBefore
       /\ made = call.madeBefore
       /\ queue[Len(queue)].fiber = (CHOOSE r \in mockRoots : r.id = call.id).fiber
  /\ (call.op = "unmount" /\ ~call.had) =>
       /\ mockRoots = call.rootsBefore
       /\ made = call.madeBefore
       /\ queue = call.queueBefore
  /\ (call.op = "commit" /\ call.unmounted) =>
       \A r \in mockRoots : r.id # call.id

\* A surface whose root an unmount has torn down is rendered again, and gets
\* a second root.
C17_Witness ==
  /\ call.op = "render"
  /\ ~call.had
  /\ call.id \in torn
  /\ call.madeBefore >= 1
  /\ \E r \in mockRoots : r.id = call.id /\ r.fiber = call.madeBefore + 1

\* The types of the top-level objects each element makes, as its tests expect.
TopTypes(el) ==
  CASE el = "Empty" -> <<>>
    [] el = "Composite" -> <<"Group">>
    [] el = "Pair" -> <<"Mesh", "Group">>

\* C19: after the commit of render(tree, canvas) the scene root is a Scene
\* whose children are exactly the top-level objects of the tree just rendered,
\* in order, whatever the canvas showed before.
C19_SceneShowsTheTree ==
  (call.op = "commit" /\ call.element # "null") =>
     /\ call.scene.type = "Scene"
     /\ Types(call.scene.children) = TopTypes(call.element)

\* A tree that makes no objects is committed on a canvas that showed a mesh.
C19_Witness ==
  /\ call.op = "commit"
  /\ call.element = "Empty"
  /\ call.sceneBefore.children # <<>>
  /\ call.scene.children = <<>>

\* The slot the tests find an object of a type in when its node names none.
ImpliedSlot(type) ==
  CASE type = "BoxGeometry" -> "geometry"
    [] type = "MeshBasicMaterial" -> "material"
    [] OTHER -> ""

RECURSIVE WellAttached(_, _)
\* The nodes are inserted below the object as C18 says, and so are theirs.
WellAttached(obj, nodes) ==
  \A i \in 1..Len(nodes) :
    LET n == nodes[i]
        slot == IF n.attach # "" THEN n.attach ELSE ImpliedSlot(n.type)
    IN IF slot # ""
       THEN /\ \E s \in obj.slots : s.slot = slot /\ s.object.type = n.type
            /\ \A k \in 1..Len(obj.children) : obj.children[k].type # n.type
       ELSE \E k \in 1..Len(obj.children) :
              /\ obj.children[k].type = n.type
              /\ WellAttached(obj.children[k], n.children)

\* C18: after the insert of a node with an attach descriptor its object is
\* the value of the named slot of its parent's object and is not in the
\* parent's child list; a node with no attach slot is in the child list.
C18_AttachedNotAChild ==
  (call.op = "commit" /\ call.element # "null") =>
     WellAttached(call.scene, Tree(call.element))

\* The composite is committed: the colour is the group's background and the
\* mesh is the group's only child.
C18_Witness ==
  /\ call.op = "commit"
  /\ call.element = "Composite"
  /\ \E s \in call.scene.children[1].slots :
       s.slot = "background" /\ s.object.type = "Color"
  /\ Types(call.scene.children[1].children) = <<"Mesh">>

\* The leaves of the object: the paths to its plain values.
Leaves == { <<"position", "x">>, <<"position", "y">>, <<"renderOrder">> }

\* The value at a leaf.
Get(obj, leaf) == IF Len(leaf) = 1 THEN obj[leaf[1]] ELSE obj[leaf[1]][leaf[2]]

\* The entries of a diff that name the leaf, or the vector it is a part of.
Naming(diff, leaf) ==
  {i \in 1..Len(diff) :
     \/ Path(diff[i].key) = leaf
     \/ Len(leaf) = 2 /\ Path(diff[i].key) = <<leaf[1]>>}

\* The value the most recent update gives a leaf; what it was, if none names it.
MostRecent(old, diff, leaf) ==
  IF Naming(diff, leaf) = {} THEN Get(old, leaf)
  ELSE diff[CHOOSE i \in Naming(diff, leaf) : \A j \in Naming(diff, leaf) : j <= i].value

\* C20: a dashed property is applied to the nested attribute it names, and
\* after a sequence of property updates every attribute of the native object
\* has the value of the most recent update that names it (the others keep
\* theirs), over one diff and over the diffs of several commits; the frame
\* tick that follows finds the object so.
C20_LastUpdateWins ==
  /\ applied.op = "update" =>
       \A leaf \in Leaves : Get(object, leaf) = MostRecent(applied.before, applied.diff, leaf)
  /\ applied.op = "tick" => frame = object

\* position-x is updated twice in one diff: the object has the second value,
\* and position-y and renderOrder what they had.
C20_Witness ==
  /\ applied.op = "update"
  /\ Len(applied.diff) = 2
  /\ applied.diff[1].key = <<"position", "-", "x">>
  /\ applied.diff[2].key = <<"position", "-", "x">>
  /\ applied.diff[1].value # applied.diff[2].value
  /\ object.position.x = applied.diff[2].value
  /\ object.position.y = applied.before.position.y
  /\ applied.before.position.x # object.position.x

\* What is directly below an object: its children and the values of its slots.
Below(obj) == Range(obj.children) \cup {s.object : s \in obj.slots}

\* All that is below a scene root (the trees are three levels deep).
AllBelow(scene) ==
  LET l1 == Below(scene)
      l2 == UNION {Below(o) : o \in l1}
      l3 == UNION {Below(o) : o \in l2}
  IN l1 \cup l2 \cup l3

\* C21: a commit that removes the nodes of a scene detaches every object
\* below the scene root and invokes dispose on each of them that is not
\* shared, never on a shared one nor on the scene root; the unmount of a root
\* hands the graphics context, the raycaster and the camera to dispose, and
\* dispose() is never invoked on an object whose type is Scene.
C21_DisposeOwnedOnly ==
  call.op = "commit" =>
    /\ (call.element = "null" \/ call.scene # call.sceneBefore) =>
         /\ call.removed = AllBelow(call.sceneBefore)
         /\ \A o \in AllBelow(call.sceneBefore) : ~o.shared => o \in call.disposed
    /\ call.element = "null" => call.scene.children = <<>> /\ call.scene.slots = {}
    /\ \A o \in call.disposed : ~o.shared /\ o.type # "Scene" /\ o \in call.removed
    /\ call.sceneBefore \notin call.disposed
    /\ call.unmounted =>
         /\ \A n \in {"gl", "raycaster", "camera"} :
              \E i \in 1..Len(call.teardown) : call.teardown[i].name = n
         /\ \E i \in 1..Len(call.teardown) :
              call.teardown[i].name = "gl" /\ call.teardown[i].native
    /\ \A i \in 1..Len(call.teardown) :
         call.teardown[i].native => call.teardown[i].type # "Scene"

\* A root that shows the mesh with the shared geometry is unmounted: the mesh
\* and its material are disposed of, the geometry is not.
C21_Witness ==
  /\ call.op = "commit"
  /\ call.unmounted
  /\ \E o \in call.removed : o.shared /\ o \notin call.disposed
  /\ \E o \in call.disposed : o.type = "MeshBasicMaterial"
  /\ \E o \in call.disposed : o.type = "Mesh"
  /\ Len(call.teardown) >= 3

\* C22: unmounting while a frame tick is in flight never errors, and no
\* subscriber of a root that is not active is invoked: the root's flag is
\* looked at before each invocation.
C22_NoTickOnInactiveRoot ==
  /\ ferr = "none"
  /\ \A k \in 1..Len(calls) : calls[k].root = "active"

\* C30: advanceFrames delivers the frames tick by tick: every subscriber's
\* callback for frame i runs before any subscriber's callback for frame i+1.
C30_FramesTickByTick ==
  \A a, b \in 1..Len(calls) : a < b => calls[a].frame <= calls[b].frame

\* C23: when the load of one of the URLs has failed the whole load is
\* rejected with the failure of a URL that failed, the component is given no
\* result list (complete or partial) in any later render, and no load is
\* started a second time.
C23_OneFailureRejectsAll ==
  /\ (\E k \in 1..Len(loads) : loads[k] = "failed") =>
       /\ promise.state = "rejected"
       /\ \E k \in 1..Len(loads) :
            loads[k] = "failed" /\ promise.value = <<Message(input.urls[k])>>
       /\ hookResult.kind \in {"suspended", "threw"}
       /\ hookResult.kind = "threw" => hookResult.value = promise.value
  /\ \A k \in 1..Len(started) : started[k] = 1

\* Of two URLs one has loaded and one has failed, and the component has
\* rendered again: it was thrown the failure.
C23_Witness ==
  /\ Len(loads) = 2
  /\ \E k \in 1..2 : loads[k] = "loaded"
  /\ \E k \in 1..2 : loads[k] = "failed"
  /\ hookResult.kind = "threw"

\* C24 as stated: once the root is ready every change of the measured size
\* sets the renderer's output size to the measured width and height and the
\* camera's aspect to width / height, and calls invalidate(); before the root
\* is ready a size change does neither.
C24_Original ==
  /\ ready =>
       /\ glSize = bounds
       /\ camAspect = Div(bounds.width, bounds.height)
       /\ camEffect.invalidated
  /\ ~ready =>
       /\ glSize = [width |-> 300, height |-> 150]
       /\ camAspect = Zero
       /\ ~camEffect.invalidated

\* C24, amended: as stated, but the camera's aspect is 0 when the measured
\* width and height are both 0 (width / height is then not a number).
C24_ResizeFollowsMeasure ==
  /\ ready =>
       /\ glSize = bounds
       /\ camAspect = (IF bounds.width = 0 /\ bounds.height = 0 THEN Zero
                       ELSE Div(bounds.width, bounds.height))
       /\ camEffect.invalidated
  /\ ~ready =>
       /\ glSize = [width |-> 300, height |-> 150]
       /\ camAspect = Zero
       /\ ~camEffect.invalidated

\* A ready root is measured at 800 x 600 after 400 x 600 was its size.
C24_Witness ==
  /\ ready
  /\ bounds = [width |-> 800, height |-> 600]
  /\ glSize = bounds
  /\ camAspect = [kind |-> "finite", num |-> 800, den |-> 600]
  /\ camEffect.invalidated

\* C25: after setManual(true) the internal scene has no children left,
\* however many it had before the call; setManual(false) removes no child.
C25_ManualEmptiesScene ==
  /\ manualCall.flag = "true" => sceneChildren = <<>>
  /\ manualCall.flag = "false" => sceneChildren = manualCall.before

\* C26: frame subscribers are isolated per mounted Canvas: a callback
\* subscribed through one Canvas never is in the subscriber list of another.
C26_SubscribersPerCanvas ==
  \A c \in Canvases :
    \A k \in 1..Len(SubscribersOf(c)) : SubscribersOf(c)[k].canvas = c

\* The objects that have a hover entry.
Entries(hov) == {hov[k].object : k \in 1..Len(hov)}

\* The index of the nearest hit of an object in a hit list.
FirstHit(hits, o) == CHOOSE i \in 1..Len(hits) : hits[i] = o /\ \A j \in 1..(i - 1) : hits[j] # o

\* C27: on a pointer-move, an object that has a hover entry, is among the
\* current hits and is nearer than the hit at which propagation stops (if it
\* stops at all) keeps its entry and is given neither pointerOut nor another
\* pointerOver; this holds for every move, so for following moves too.
C27_NearerHoverSurvives ==
  (ev = "pointerMove" /\ ready) =>
    \A o \in Entries(before) :
      (o \in Range(used) /\ (stopHit = 0 \/ FirstHit(used, o) < stopHit)) =>
        /\ o \in Entries(hovered)
        /\ \A k \in 1..Len(fired) :
             fired[k].object = o => fired[k].handler \notin {"pointerOut", "pointerOver"}

RECURSIVE HoverWalk(_, _, _)
\* Follow the calls of a log from call k on, has being the objects hovering
\* entered and not left: pointerOver must find its object outside has and puts
\* it in, pointerOut must find it inside and takes it out.
HoverWalk(log, k, has) ==
  IF k > Len(log) THEN [ok |-> TRUE, has |-> has]
  ELSE IF log[k].handler = "pointerOver"
       THEN IF log[k].object \in has THEN [ok |-> FALSE, has |-> has]
            ELSE HoverWalk(log, k + 1, has \cup {log[k].object})
  ELSE IF log[k].handler = "pointerOut"
       THEN IF log[k].object \notin has THEN [ok |-> FALSE, has |-> has]
            ELSE HoverWalk(log, k + 1, has \ {log[k].object})
  ELSE HoverWalk(log, k + 1, has)

\* C28: for every object hover entry and exit alternate, starting with
\* entry: in every event pointerOver is delivered only to an object without a
\* hover entry and pointerOut only to an object with one, which loses it; an
\* entry is made only with a pointerOver, and an entry is dropped without a
\* pointerOut only where the object has no pointerOut handler.  So no object
\* is given pointerOut twice with no pointerOver in between.
C28_HoverAlternates ==
  LET walk == HoverWalk(fired, 1, Entries(before))
  IN ev # "none" =>
       /\ walk.ok
       /\ Entries(hovered) \subseteq walk.has
       /\ \A o \in walk.has \ Entries(hovered) : "pointerOut" \notin Has(o)

\* In one pointer-move an object is given pointerOver and another, hovered
\* before, is given pointerOut and loses its entry.
C28_Witness ==
  /\ ev = "pointerMove"
  /\ \E k \in 1..Len(fired) : fired[k].handler = "pointerOver"
  /\ \E k \in 1..Len(fired) :
       /\ fired[k].handler = "pointerOut"
       /\ fired[k].object \in Entries(before)
       /\ fired[k].object \notin Entries(hovered)

\* C29: whatever the interleaving of render and unmount on a canvas, when
\* the updates of the canvas are committed and the most recent call on it was
\* render, the registry still has an entry for the canvas and its store has
\* not been disposed.
C29_RenderLastKeepsRoot ==
  (call.op = "commit" /\ call.element # "null") =>
    /\ ~call.unmounted
    /\ \E r \in mockRoots : r.id = call.id /\ r.fiber = call.fiber

\* The instance getInstance returns after create(el): that of the user's
\* top-level element.
TopInstance(el) == getInstance(ProviderWrap(el))

\* C31: after update(newElement) the rendered tree is still below the
\* root's store provider, a hook of the new element reads the root's store,
\* and getInstance() returns what it returns after create(newElement).
C31_UpdateKeepsProvider ==
  (testRoot = "mounted" /\ Len(history) > 1) =>
    /\ \E i \in 1..Len(rootChild) : rootChild[i] = "context.Provider"
    /\ tcall.op = "useContext" => tcall.result = "store"
    /\ tcall.op = "getInstance" => tcall.result = TopInstance(history[Len(history)])

\* A list without its element at position k.
RemoveAt(s, k) == SubSeq(s, 1, k - 1) \o SubSeq(s, k + 1, Len(s))

\* C32: a call of an unsubscribe function that changes the subscriber list
\* takes exactly one subscription out of it: every other subscription, one
\* of the same callback included, stays, in the order it had.
C32_UnsubscribeRemovesOne ==
  [][Len(subscribers') < Len(subscribers) =>
       \E k \in 1..Len(subscribers) : subscribers' = RemoveAt(subscribers, k)]_vars

\* How many entries of a subscriber list are those of hook u's ref.
RefCount(subs, u) == Cardinality({k \in 1..Len(subs) : subs[k].fn = u})

\* The subscriptions of hook u's ref in all the subscriber arrays there are:
\* defaultRef's, while a Canvas still uses it, and every Canvas' own.
Held(u) ==
  (IF \E c \in Canvases : sharesDefault[c] THEN RefCount(defaultSubs, u) ELSE 0)
  + (IF sharesDefault["A"] THEN 0 ELSE RefCount(ownSubs["A"], u))
  + (IF sharesDefault["B"] THEN 0 ELSE RefCount(ownSubs["B"], u))

\* C33: a mounted useFrame hook holds exactly one subscription and an
\* unmounted one none, whatever changes of callback and priority came
\* before; a tick calls only the refs of mounted hooks, each with the
\* callback of the hook's last render.
C33_OneSubscriptionPerHook ==
  \A u \in FrameHooks :
    /\ frameHooks[u].mounted => Held(u) = 1
    /\ ~frameHooks[u].mounted => Held(u) = 0
    /\ \A k \in 1..Len(ticked.calls) :
         ticked.calls[k].ref = u =>
           frameHooks[u].mounted /\ ticked.calls[k].callback = frameHooks[u].callback

\* C34: a component is given results only when every load has completed;
\* a list input is given the list of the results in the order of its URLs,
\* whatever the order the loads completed in, and a string input the one
\* result of its URL.
C34_ResultsInInputOrder ==
  hookResult.kind \in {"result", "results"} =>
    /\ \A k \in 1..Len(loads) : loads[k] = "loaded"
    /\ hookResult.kind = "results" <=> input.kind = "list"
    /\ input.kind = "list" =>
         /\ Len(hookResult.value) = Len(input.urls)
         /\ \A n \in 1..Len(input.urls) : hookResult.value[n] = Data(input.urls[n])
    /\ input.kind = "string" => hookResult.value = <<Data(input.urls[1])>>

\* Two different URLs were loaded, the second one first, and the component
\* has rendered with the results.
C34_Witness ==
  /\ input.kind = "list"
  /\ Len(input.urls) = 2
  /\ input.urls[1] # input.urls[2]
  /\ settled = <<2, 1>>
  /\ hookResult.kind = "results"

====
